---- MODULE Spec2Model ----
(***************************************************************************)
(* Session and token-refresh protocol of the admin portal front end:       *)
(* Edge Interceptor (middleware.ts), Session Gate (protected layout),      *)
(* Recovery Endpoint (api/auth/session-refresh), Request Proxy             *)
(* (api/[...path]) and POST /api/auth/refresh, with the browser's cookie   *)
(* jar and the backend's token validity as the environment.                *)
(***************************************************************************)
EXTENDS Integers, Sequences, FiniteSets, TLC

VARIABLES
    cookies,       \* the browser's cookie jar: [access, refresh]
    validAccess,   \* ids of the access tokens the backend accepts
    validRefresh,  \* ids of the refresh tokens the backend accepts
    issued,        \* number of credential pairs the backend has issued
    nav,           \* the navigation in progress (request, response, view)
    hist,          \* what happened in the navigation's redirect chain
    proxy,         \* the Request Proxy calls in flight, one record per call
    rcall,         \* the POST /api/auth/refresh calls in flight
    authCall,      \* the login / logout call in flight and the cookies it wrote
    authStore,     \* the client auth store (useAuthStore)
    pagination     \* the state of one usePagination hook

vars == <<cookies, validAccess, validRefresh, issued, nav, hist, proxy, rcall,
          authCall, authStore, pagination>>

----------------------------------------------------------------------------
(* Bounds of the model *)

\* credential pairs the backend issues in one run
MaxIssue == 3
\* redirects the browser follows in one chain before it gives up
MaxHops == 6
\* Date.now() during the chain, in milliseconds
NowMs == 100000

\* login / logout calls made before the navigation starts
MaxAuthCalls == 2

(* Program constants *)

\* maxAge of the access_token cookie: 15 * 60 seconds
AccessMaxAge == 900
\* maxAge of the refresh_token cookie: 7 * 24 * 60 * 60 seconds
RefreshMaxAge == 604800
\* the access token lifetime the technical documentation states: 1 day
DocumentedAccessMaxAge == 86400

\* the 30s buffer of the local expiry check
BufferMs == 30000

----------------------------------------------------------------------------
(* Tokens and cookies *)

\* An access token as far as the front end can see it: the number of
\* dot-separated parts, whether atob/JSON.parse of the payload succeeds and the
\* payload's exp claim in seconds (0: no exp claim).  id names the token for the
\* backend; id 0 is the absent cookie (undefined / '' in the code).
NoToken == [id |-> 0, parts |-> 0, decodable |-> FALSE, exp |-> 0]

\* A refresh token is opaque: only its id.  0 is the absent cookie.
NoRefresh == 0

\* The token pair the backend issues as number n (ids 1 are the initial cookies).
IssuedAccess(n) == [id |-> n, parts |-> 3, decodable |-> TRUE, exp |-> (NowMs \div 1000) + 900]

InitialAccessTokens ==
    {NoToken}
    \cup {[id |-> 1, parts |-> 3, decodable |-> TRUE, exp |-> e] : e \in {0, 50, 70, 80, 1000}}
    \cup {[id |-> 1, parts |-> 2, decodable |-> FALSE, exp |-> 0],
          [id |-> 1, parts |-> 3, decodable |-> FALSE, exp |-> 0]}

\* variant: the check has no buffer
isTokenExpiredNoBuffer(token, now) ==
    IF token.parts # 3 THEN TRUE
    ELSE IF ~token.decodable THEN TRUE
    ELSE IF token.exp # 0 /\ token.exp * 1000 < now THEN TRUE
    ELSE FALSE

\* isTokenExpiredOrInvalid(token) of the Edge Interceptor, with Date.now() = now
isTokenExpiredOrInvalid(token, now) ==
    IF token.parts # 3 THEN TRUE
    ELSE IF ~token.decodable THEN TRUE
    ELSE IF token.exp # 0 /\ token.exp * 1000 < now - BufferMs THEN TRUE
    ELSE FALSE

\* One Set-Cookie of a response: keep (no Set-Cookie), set a value, or clear
\* (value '' with maxAge 0, or cookies.delete).
KeepA == [op |-> "keep", value |-> NoToken]
SetA(t) == [op |-> "set", value |-> t]
ClearA == [op |-> "clear", value |-> NoToken]
KeepR == [op |-> "keep", value |-> NoRefresh]
SetR(r) == [op |-> "set", value |-> r]
ClearR == [op |-> "clear", value |-> NoRefresh]

NoJar == [access |-> NoToken, refresh |-> NoRefresh]

\* the two concurrent calls of the Request Proxy and of POST /api/auth/refresh
Calls == {1, 2}

\* the response of an API route to a script's fetch
ProxyResponse(status, a, r, flag) ==
    [status |-> status, setAccess |-> a, setRefresh |-> r, xAuthRedirect |-> flag,
     error |-> "none"]

\* newTokens of handleRequest (present: the value is truthy)
NoTokens == [present |-> FALSE, accessToken |-> NoToken, refreshToken |-> NoRefresh]

\* the request a script sends to the Request Proxy: method, body (NoBody: the
\* request has none), the path after /api/ and the query string
NoBody == "null"
ProxiedRequest(method, body, path, search) ==
    [method |-> method, body |-> body, path |-> path, search |-> search]
GetUsers == ProxiedRequest("GET", NoBody, <<"users">>, "")

\* a Request Proxy call that was not made
IdleCall ==
    [pc |-> "idle", jar |-> NoJar, status |-> "none", newTokens |-> NoTokens,
     downstreamCalls |-> 0, refreshCalls |-> 0,
     req |-> GetUsers, bodyUsed |-> FALSE, sent |-> <<>>,
     resp |-> ProxyResponse("none", KeepA, KeepR, FALSE),
     faults |-> {}, validA |-> FALSE, validR |-> FALSE, refreshAnswer |-> "none"]

\* a POST /api/auth/refresh call that was not made
IdleRefreshCall ==
    [pc |-> "idle", jar |-> NoJar, answer |-> "none", validR |-> FALSE,
     fault |-> FALSE, resp |-> ProxyResponse("none", KeepA, KeepR, FALSE)]
NoRcall == [c \in Calls |-> IdleRefreshCall]

\* no login or logout call was made
NoAuthCall ==
    [pc |-> "idle", op |-> "none", production |-> FALSE, jar |-> NoJar,
     answer |-> "none", count |-> 0,
     resp |-> [status |-> "none", setAccess |-> KeepA, setRefresh |-> KeepR]]

\* the auth store as create() builds it
NoStore == [user |-> "null", isAuthenticated |-> FALSE, isLoading |-> TRUE,
            accessToken |-> "null", lastOp |-> "create"]

\* the pagination hook with its default options
DEFAULT_PAGE_SIZE == 10
NoPagination == [page |-> 1, pageSize |-> DEFAULT_PAGE_SIZE, total |-> 0]

\* the browser stores a response's cookies
ApplyCookie(cur, c) == IF c.op = "keep" THEN cur ELSE c.value
ApplyCookies(jar, resp) ==
    [access |-> ApplyCookie(jar.access, resp.setAccess),
     refresh |-> ApplyCookie(jar.refresh, resp.setRefresh)]

----------------------------------------------------------------------------
(* Paths and URLs.  A path is the sequence of its pieces, "/" being a piece  *)
(* of its own, so that startsWith and encodeURIComponent act on it.          *)

RootPath == <<"/">>
LoginPath == <<"/", "login">>
RegisterPath == <<"/", "register">>
DashboardPath == <<"/", "dashboard">>
TablesPath == <<"/", "tables">>
TableRowsPath == <<"/", "tables", "/", "labs">>
LoginExtraPath == <<"/", "login", "x">>
SessionRefreshPath == <<"/", "api", "/", "auth", "/", "session-refresh">>

Paths == {RootPath, LoginPath, RegisterPath, DashboardPath, TablesPath,
          TableRowsPath, LoginExtraPath}

NoParam == <<>>

\* String.prototype.startsWith
StartsWith(p, prefix) ==
    /\ Len(p) >= Len(prefix)
    /\ SubSeq(p, 1, Len(prefix)) = prefix

PUBLIC_PATHS == {LoginPath, RegisterPath}
AUTH_PATHS == {LoginPath, RegisterPath}

\* encodeURIComponent / URLSearchParams.set: "/" becomes "%2F"
encodeURIComponent(p) == [i \in 1..Len(p) |-> IF p[i] = "/" THEN "%2F" ELSE p[i]]
\* URLSearchParams.get: the decoding of a query value
searchParamsGet(q) == [i \in 1..Len(q) |-> IF q[i] = "%2F" THEN "/" ELSE q[i]]

Url(path, redirect, callbackUrl) ==
    [path |-> path, redirect |-> redirect, callbackUrl |-> callbackUrl]
PlainUrl(path) == Url(path, NoParam, NoParam)

\* config.matcher of the Edge Interceptor: every path but /api..., /_next/...
MatcherMatches(path) == ~StartsWith(path, <<"/", "api">>)

----------------------------------------------------------------------------
(* The backend, as the front end observes it.  Each call gets one answer:   *)
(* the truthful one for the token it carries, or a fault.                   *)

NoAnswer == [kind |-> "none", accessToken |-> NoToken, refreshToken |-> NoRefresh]
Answer(k) == [kind |-> k, accessToken |-> NoToken, refreshToken |-> NoRefresh]

\* POST {API}/auth/refresh with body {refreshToken: rt}:
\*   "ok"          2xx {accessToken, refreshToken}: the pair issued next
\*   "okNoRefresh" 2xx {accessToken} (the refreshToken field is optional)
\*   "malformed"   2xx without accessToken
\*   "reject"      non-2xx
\*   "refused"     fetch throws with cause.code ECONNREFUSED
\*   "error"       fetch or json() throws anything else
RefreshAnswers(rt) ==
    (IF rt \in validRefresh /\ issued < MaxIssue
     THEN {[kind |-> "ok", accessToken |-> IssuedAccess(issued + 1),
            refreshToken |-> issued + 1],
           [kind |-> "okNoRefresh", accessToken |-> IssuedAccess(issued + 1),
            refreshToken |-> NoRefresh]}
     ELSE {})
    \cup {Answer("malformed"), Answer("reject"), Answer("refused"), Answer("error")}

\* the answer of a backend that is up and rotates refresh tokens
RefreshTruthful(rt, ans) ==
    IF rt \in validRefresh THEN ans.kind = "ok" ELSE ans.kind = "reject"

\* the backend's state after it gave the answer: a rotation retires rt
BackendAfterRefresh(rt, ans) ==
    IF ans.kind = "ok"
    THEN [validAccess |-> validAccess \cup {issued + 1},
          validRefresh |-> (validRefresh \ {rt}) \cup {issued + 1},
          issued |-> issued + 1]
    ELSE IF ans.kind = "okNoRefresh"
    THEN [validAccess |-> validAccess \cup {issued + 1},
          validRefresh |-> validRefresh,
          issued |-> issued + 1]
    ELSE [validAccess |-> validAccess, validRefresh |-> validRefresh,
          issued |-> issued]

\* GET {API}/users/me with Authorization: Bearer token:
\*   "ok" 2xx, "401", "other" (any other non-2xx), "refused", "error"
WhoamiAnswers(token) ==
    (IF token.id \in validAccess THEN {Answer("ok")} ELSE {})
    \cup {Answer("401"), Answer("other"), Answer("refused"), Answer("error")}

\* the answer of a backend that is consistent: whoami answers 2xx or 401, and
\* 2xx to a token the backend issued in this run
WhoamiConsistent(token, ans) ==
    /\ ans.kind \in {"ok", "401"}
    /\ (token.id > 1 /\ token.id \in validAccess) => ans.kind = "ok"

WhoamiTruthful(token, ans) ==
    IF token.id \in validAccess THEN ans.kind = "ok" ELSE ans.kind = "401"

----------------------------------------------------------------------------
(* Responses of the server-side layers *)

Redirect(url, a, r) ==
    [kind |-> "redirect", location |-> url, view |-> "none",
     setAccess |-> a, setRefresh |-> r, header |-> NoParam]
\* NextResponse.next({request: {headers}}) with x-next-pathname
PassThrough(pathname) ==
    [kind |-> "next", location |-> PlainUrl(pathname), view |-> "none",
     setAccess |-> KeepA, setRefresh |-> KeepR, header |-> pathname]
Render(v) ==
    [kind |-> "render", location |-> PlainUrl(NoParam), view |-> v,
     setAccess |-> KeepA, setRefresh |-> KeepR, header |-> NoParam]
NoResponse == Render("none")

\* loginUrl with searchParams.set('callbackUrl', pathname)
\* variant: the login redirect forgets the callback parameter
LoginWithoutCallback(pathname) == Url(LoginPath, NoParam, NoParam)

LoginWithCallback(pathname) == Url(LoginPath, NoParam, encodeURIComponent(pathname))

(* Edge Interceptor: middleware(request) *)

\* variant: only a missing access token triggers the refresh, a stale one does not
needsRefreshOnlyWhenMissing(req) ==
    /\ req.cookies.refresh # NoRefresh
    /\ req.cookies.access = NoToken

\* variant: every request that carries a refresh token triggers the refresh
needsRefreshWithAnyAccess(req) ==
    req.cookies.refresh # NoRefresh

needsRefresh(req) ==
    /\ req.cookies.refresh # NoRefresh
    /\ \/ req.cookies.access = NoToken
       \/ isTokenExpiredOrInvalid(req.cookies.access, NowMs)

\* variant: the auth-page rule is applied before the refresh attempt
middlewareAuthPageFirst(req, ans) ==
    LET pathname == req.url.path
        accessToken == req.cookies.access
        refreshToken == req.cookies.refresh
        hasAuth == accessToken # NoToken \/ refreshToken # NoRefresh
        isPublicPath == \E p \in PUBLIC_PATHS : StartsWith(pathname, p)
        isAuthPath == \E p \in AUTH_PATHS : StartsWith(pathname, p)
    IN  IF hasAuth /\ isAuthPath
        THEN Redirect(PlainUrl(DashboardPath), KeepA, KeepR)
        ELSE IF needsRefresh(req) /\ ans.kind \in {"ok", "okNoRefresh"}
        THEN Redirect(req.url, SetA(ans.accessToken),
                      IF ans.refreshToken # NoRefresh
                      THEN SetR(ans.refreshToken) ELSE KeepR)
        ELSE IF /\ needsRefresh(req)
                /\ ans.kind \in {"reject", "malformed"}
                /\ ~isPublicPath /\ pathname # RootPath
        THEN Redirect(LoginWithCallback(pathname), ClearA, ClearR)
        ELSE IF ~hasAuth /\ ~isPublicPath /\ pathname # RootPath
        THEN Redirect(LoginWithCallback(pathname), KeepA, KeepR)
        ELSE IF pathname = RootPath
        THEN (IF hasAuth THEN Redirect(PlainUrl(DashboardPath), KeepA, KeepR)
                         ELSE Redirect(PlainUrl(LoginPath), KeepA, KeepR))
        ELSE PassThrough(pathname)

\* variant: a failed refresh redirects to the login page and keeps the cookies
middlewareKeepsCookiesOnFailure(req, ans) ==
    LET pathname == req.url.path
        accessToken == req.cookies.access
        refreshToken == req.cookies.refresh
        hasAuth == accessToken # NoToken \/ refreshToken # NoRefresh
        isPublicPath == \E p \in PUBLIC_PATHS : StartsWith(pathname, p)
        isAuthPath == \E p \in AUTH_PATHS : StartsWith(pathname, p)
    IN  IF needsRefresh(req) /\ ans.kind \in {"ok", "okNoRefresh"}
        THEN Redirect(req.url, SetA(ans.accessToken),
                      IF ans.refreshToken # NoRefresh
                      THEN SetR(ans.refreshToken) ELSE KeepR)
        ELSE IF /\ needsRefresh(req)
                /\ ans.kind \in {"reject", "malformed"}
                /\ ~isPublicPath /\ pathname # RootPath
        THEN Redirect(LoginWithCallback(pathname), KeepA, KeepR)
        ELSE IF hasAuth /\ isAuthPath
        THEN Redirect(PlainUrl(DashboardPath), KeepA, KeepR)
        ELSE IF ~hasAuth /\ ~isPublicPath /\ pathname # RootPath
        THEN Redirect(LoginWithCallback(pathname), KeepA, KeepR)
        ELSE IF pathname = RootPath
        THEN (IF hasAuth THEN Redirect(PlainUrl(DashboardPath), KeepA, KeepR)
                         ELSE Redirect(PlainUrl(LoginPath), KeepA, KeepR))
        ELSE PassThrough(pathname)

\* variant: the root path is always sent to the login page
middlewareRootToLogin(req, ans) ==
    LET pathname == req.url.path
        accessToken == req.cookies.access
        refreshToken == req.cookies.refresh
        hasAuth == accessToken # NoToken \/ refreshToken # NoRefresh
        isPublicPath == \E p \in PUBLIC_PATHS : StartsWith(pathname, p)
        isAuthPath == \E p \in AUTH_PATHS : StartsWith(pathname, p)
    IN  IF needsRefresh(req) /\ ans.kind \in {"ok", "okNoRefresh"}
        THEN Redirect(req.url, SetA(ans.accessToken),
                      IF ans.refreshToken # NoRefresh
                      THEN SetR(ans.refreshToken) ELSE KeepR)
        ELSE IF /\ needsRefresh(req)
                /\ ans.kind \in {"reject", "malformed"}
                /\ ~isPublicPath /\ pathname # RootPath
        THEN Redirect(LoginWithCallback(pathname), ClearA, ClearR)
        ELSE IF hasAuth /\ isAuthPath
        THEN Redirect(PlainUrl(DashboardPath), KeepA, KeepR)
        ELSE IF ~hasAuth /\ ~isPublicPath /\ pathname # RootPath
        THEN Redirect(LoginWithCallback(pathname), KeepA, KeepR)
        ELSE IF pathname = RootPath
        THEN Redirect(PlainUrl(LoginPath), KeepA, KeepR)
        ELSE PassThrough(pathname)

middleware(req, ans) ==
    LET pathname == req.url.path
        accessToken == req.cookies.access
        refreshToken == req.cookies.refresh
        hasAuth == accessToken # NoToken \/ refreshToken # NoRefresh
        isPublicPath == \E p \in PUBLIC_PATHS : StartsWith(pathname, p)
        isAuthPath == \E p \in AUTH_PATHS : StartsWith(pathname, p)
    IN  IF needsRefresh(req) /\ ans.kind \in {"ok", "okNoRefresh"}
        THEN Redirect(req.url, SetA(ans.accessToken),
                      IF ans.refreshToken # NoRefresh
                      THEN SetR(ans.refreshToken) ELSE KeepR)
        ELSE IF /\ needsRefresh(req)
                /\ ans.kind \in {"reject", "malformed"}
                /\ ~isPublicPath /\ pathname # RootPath
        THEN Redirect(LoginWithCallback(pathname), ClearA, ClearR)
        ELSE IF hasAuth /\ isAuthPath
        THEN Redirect(PlainUrl(DashboardPath), KeepA, KeepR)
        ELSE IF ~hasAuth /\ ~isPublicPath /\ pathname # RootPath
        THEN Redirect(LoginWithCallback(pathname), KeepA, KeepR)
        ELSE IF pathname = RootPath
        THEN (IF hasAuth THEN Redirect(PlainUrl(DashboardPath), KeepA, KeepR)
                         ELSE Redirect(PlainUrl(LoginPath), KeepA, KeepR))
        ELSE PassThrough(pathname)

\* the earlier Edge Interceptor, which never refreshes
middlewareLegacy(req) ==
    LET pathname == req.url.path
        accessToken == req.cookies.access
        refreshToken == req.cookies.refresh
        hasAuth == accessToken # NoToken \/ refreshToken # NoRefresh
        isPublicPath == \E p \in PUBLIC_PATHS : StartsWith(pathname, p)
        isAuthPath == \E p \in AUTH_PATHS : StartsWith(pathname, p)
    IN  IF hasAuth /\ isAuthPath
        THEN Redirect(PlainUrl(DashboardPath), KeepA, KeepR)
        ELSE IF ~hasAuth /\ ~isPublicPath /\ pathname # RootPath
        THEN Redirect(LoginWithCallback(pathname), KeepA, KeepR)
        ELSE IF pathname = RootPath
        THEN (IF hasAuth THEN Redirect(PlainUrl(DashboardPath), KeepA, KeepR)
                         ELSE Redirect(PlainUrl(LoginPath), KeepA, KeepR))
        ELSE [PassThrough(pathname) EXCEPT !.header = NoParam]

(* Session Gate: getSession() and ProtectedLayout *)

Session(t, p) == [type |-> t, pathname |-> p]

\* variant: the gate does not test response.ok
getSessionNoOkCheck(jar, xNextPathname, xInvokePath, ans) ==
    IF jar.access = NoToken THEN Session("no_session", NoParam)
    ELSE IF ans.kind = "401" THEN Session("needs_refresh", xNextPathname)
    ELSE IF ans.kind \in {"ok", "other"} THEN Session("success", NoParam)
    ELSE IF ans.kind = "refused" THEN Session("server_error", NoParam)
    ELSE Session("no_session", NoParam)

\* variant: the gate treats a refused connection like every other error
getSessionRefusedIsNoSession(jar, xNextPathname, xInvokePath, ans) ==
    IF jar.access = NoToken THEN Session("no_session", NoParam)
    ELSE IF ans.kind = "401" THEN Session("needs_refresh", xNextPathname)
    ELSE IF ans.kind = "ok" THEN Session("success", NoParam)
    ELSE Session("no_session", NoParam)

\* variant: the gate does not read the path headers
getSessionWithoutPathname(jar, xNextPathname, xInvokePath, ans) ==
    IF jar.access = NoToken /\ jar.refresh = NoRefresh THEN Session("no_session", NoParam)
    ELSE IF jar.access = NoToken THEN Session("no_session", NoParam)
    ELSE IF ans.kind = "401" THEN Session("needs_refresh", DashboardPath)
    ELSE IF ans.kind = "other" THEN Session("no_session", NoParam)
    ELSE IF ans.kind = "ok" THEN Session("success", NoParam)
    ELSE IF ans.kind = "refused" THEN Session("server_error", NoParam)
    ELSE Session("no_session", NoParam)

\* xNextPathname, xInvokePath: the request headers the gate reads
getSession(jar, xNextPathname, xInvokePath, ans) ==
    IF jar.access = NoToken /\ jar.refresh = NoRefresh THEN Session("no_session", NoParam)
    ELSE IF jar.access = NoToken THEN Session("no_session", NoParam)
    ELSE IF ans.kind = "401"
    THEN Session("needs_refresh",
                 IF xNextPathname # NoParam THEN xNextPathname
                 ELSE IF xInvokePath # NoParam THEN xInvokePath
                 ELSE DashboardPath)
    ELSE IF ans.kind = "other" THEN Session("no_session", NoParam)
    ELSE IF ans.kind = "ok" THEN Session("success", NoParam)
    ELSE IF ans.kind = "refused" THEN Session("server_error", NoParam)
    ELSE Session("no_session", NoParam)

\* whether getSession calls the backend at all
GateCallsBackend(jar) == jar.access # NoToken

ProtectedLayout(session) ==
    IF session.type = "server_error" THEN Render("unavailable")
    ELSE IF session.type = "needs_refresh"
    THEN Redirect(Url(SessionRefreshPath, encodeURIComponent(session.pathname), NoParam),
                  KeepA, KeepR)
    ELSE IF session.type = "no_session"
    THEN Redirect(PlainUrl(LoginPath), KeepA, KeepR)
    ELSE Render("protected")

(* Recovery Endpoint: GET /api/auth/session-refresh *)

\* variant: a failed refresh redirects to /login and leaves the cookies alone
SessionRefreshKeepsCookies(req, ans) ==
    LET param == searchParamsGet(req.url.redirect)
        redirectTo == IF param # NoParam THEN param ELSE DashboardPath
    IN  IF req.cookies.refresh # NoRefresh /\ ans.kind \in {"ok", "okNoRefresh"}
        THEN Redirect(PlainUrl(redirectTo), SetA(ans.accessToken),
                      IF ans.refreshToken # NoRefresh
                      THEN SetR(ans.refreshToken) ELSE KeepR)
        ELSE Redirect(PlainUrl(LoginPath), KeepA, KeepR)

\* variant: the catch block redirects to the requested target
SessionRefreshThrowToTarget(req, ans) ==
    LET refreshToken == req.cookies.refresh
        param == searchParamsGet(req.url.redirect)
        redirectTo == IF param # NoParam THEN param ELSE DashboardPath
    IN  IF refreshToken = NoRefresh
        THEN Redirect(PlainUrl(LoginPath), ClearA, ClearR)
        ELSE IF ans.kind \in {"ok", "okNoRefresh"}
        THEN Redirect(PlainUrl(redirectTo), SetA(ans.accessToken),
                      IF ans.refreshToken # NoRefresh
                      THEN SetR(ans.refreshToken) ELSE KeepR)
        ELSE IF ans.kind \in {"refused", "error"}
        THEN Redirect(PlainUrl(redirectTo), ClearA, ClearR)
        ELSE Redirect(PlainUrl(LoginPath), ClearA, ClearR)

\* variant: a successful refresh always lands on /dashboard
SessionRefreshAlwaysDashboard(req, ans) ==
    LET refreshToken == req.cookies.refresh
    IN  IF refreshToken = NoRefresh
        THEN Redirect(PlainUrl(LoginPath), ClearA, ClearR)
        ELSE IF ans.kind \in {"ok", "okNoRefresh"}
        THEN Redirect(PlainUrl(DashboardPath), SetA(ans.accessToken),
                      IF ans.refreshToken # NoRefresh
                      THEN SetR(ans.refreshToken) ELSE KeepR)
        ELSE Redirect(PlainUrl(LoginPath), ClearA, ClearR)

SessionRefreshGET(req, ans) ==
    LET refreshToken == req.cookies.refresh
        param == searchParamsGet(req.url.redirect)
        redirectTo == IF param # NoParam THEN param ELSE DashboardPath
    IN  IF refreshToken = NoRefresh
        THEN Redirect(PlainUrl(LoginPath), ClearA, ClearR)
        ELSE IF ans.kind \in {"ok", "okNoRefresh"}
        THEN Redirect(PlainUrl(redirectTo), SetA(ans.accessToken),
                      IF ans.refreshToken # NoRefresh
                      THEN SetR(ans.refreshToken) ELSE KeepR)
        ELSE Redirect(PlainUrl(LoginPath), ClearA, ClearR)

(* The pages the router serves once the Edge Interceptor passed a request *)

IsProtectedRoute(path) == path \in {DashboardPath, TablesPath, TableRowsPath}

PublicPage(path) ==
    IF path = LoginPath THEN Render("login")
    ELSE IF path = RegisterPath THEN Render("register")
    ELSE Render("notfound")

----------------------------------------------------------------------------
(* A navigation: the browser sends a request, the layers answer, the        *)
(* browser stores the cookies and follows the redirect or shows the view.   *)

Request(url, jar) == [url |-> url, cookies |-> jar, header |-> NoParam]


\* the bookkeeping of one layer's run: which layer, on which request, whether
\* it called the backend, the answer it got and whether that answer is a fault
Ran(layer, req, called, ans, truthful) ==
    [hist EXCEPT
       !.last = [layer |-> layer, req |-> req, called |-> called, answer |-> ans.kind],
       !.faults = IF called /\ ~truthful THEN @ \cup {ans.kind} ELSE @,
       !.calls = IF called THEN @ + 1 ELSE @,
       !.inconsistent = @ \/ (layer = "gate" /\ called /\ ~WhoamiConsistent(req.cookies.access, ans)),
       !.visited = @ \cup {[layer |-> layer, url |-> req.url, cookies |-> req.cookies]},
       !.revisit = @ \/ [layer |-> layer, url |-> req.url, cookies |-> req.cookies] \in hist.visited]

SetBackend(be) ==
    /\ validAccess' = be.validAccess
    /\ validRefresh' = be.validRefresh
    /\ issued' = be.issued

\* the Edge Interceptor handles the request
EdgeInterceptor ==
    /\ nav.at = "edge"
    /\ \E ans \in (IF needsRefresh(nav.req)
                   THEN RefreshAnswers(nav.req.cookies.refresh) ELSE {NoAnswer}) :
         LET resp == middleware(nav.req, ans)
             rt == nav.req.cookies.refresh
         IN  /\ SetBackend(BackendAfterRefresh(rt, ans))
             /\ nav' = IF resp.kind = "next"
                       THEN [nav EXCEPT !.at = "page", !.resp = resp,
                                        !.req.header = resp.header]
                       ELSE [nav EXCEPT !.at = "browser", !.resp = resp]
             /\ hist' = Ran("edge", nav.req, needsRefresh(nav.req), ans,
                            RefreshTruthful(rt, ans))
    /\ UNCHANGED <<cookies, proxy, rcall>>
    /\ UNCHANGED <<authCall, authStore, pagination>>

\* the Session Gate renders the protected area
SessionGate ==
    /\ nav.at = "page"
    /\ IsProtectedRoute(nav.req.url.path)
    /\ \E ans \in (IF GateCallsBackend(nav.req.cookies)
                   THEN WhoamiAnswers(nav.req.cookies.access) ELSE {NoAnswer}) :
         /\ nav' = [nav EXCEPT
                      !.at = "browser",
                      !.resp = ProtectedLayout(
                                 getSession(nav.req.cookies, nav.req.header, NoParam, ans))]
         /\ hist' = Ran("gate", nav.req, GateCallsBackend(nav.req.cookies), ans,
                        WhoamiTruthful(nav.req.cookies.access, ans))
    /\ UNCHANGED <<cookies, validAccess, validRefresh, issued, proxy, rcall>>
    /\ UNCHANGED <<authCall, authStore, pagination>>

\* a page outside the protected area is rendered
PublicPageRender ==
    /\ nav.at = "page"
    /\ ~IsProtectedRoute(nav.req.url.path)
    /\ nav' = [nav EXCEPT !.at = "browser", !.resp = PublicPage(nav.req.url.path)]
    /\ hist' = Ran("public", nav.req, FALSE, NoAnswer, TRUE)
    /\ UNCHANGED <<cookies, validAccess, validRefresh, issued, proxy, rcall>>
    /\ UNCHANGED <<authCall, authStore, pagination>>

\* the Recovery Endpoint handles GET /api/auth/session-refresh
RecoveryEndpoint ==
    /\ nav.at = "recovery"
    /\ \E ans \in (IF nav.req.cookies.refresh # NoRefresh
                   THEN RefreshAnswers(nav.req.cookies.refresh) ELSE {NoAnswer}) :
         LET rt == nav.req.cookies.refresh
         IN  /\ SetBackend(BackendAfterRefresh(rt, ans))
             /\ nav' = [nav EXCEPT !.at = "browser", !.resp = SessionRefreshGET(nav.req, ans)]
             /\ hist' = Ran("recovery", nav.req, rt # NoRefresh, ans,
                            RefreshTruthful(rt, ans))
    /\ UNCHANGED <<cookies, proxy, rcall>>
    /\ UNCHANGED <<authCall, authStore, pagination>>

\* the browser stores the response's cookies and follows its redirect
BrowserFollowRedirect ==
    /\ nav.at = "browser"
    /\ nav.resp.kind = "redirect"
    /\ cookies' = ApplyCookies(cookies, nav.resp)
    /\ nav' = IF nav.hops < MaxHops
              THEN [nav EXCEPT
                      !.at = IF MatcherMatches(nav.resp.location.path)
                             THEN "edge" ELSE "recovery",
                      !.req = Request(nav.resp.location, cookies'),
                      !.resp = NoResponse,
                      !.hops = @ + 1]
              ELSE [nav EXCEPT !.at = "done", !.view = "tooManyRedirects"]
    /\ UNCHANGED <<validAccess, validRefresh, issued, hist, proxy, rcall>>
    /\ UNCHANGED <<authCall, authStore, pagination>>

\* the browser shows the rendered view
BrowserShow ==
    /\ nav.at = "browser"
    /\ nav.resp.kind = "render"
    /\ cookies' = ApplyCookies(cookies, nav.resp)
    /\ nav' = [nav EXCEPT !.at = "done", !.view = nav.resp.view]
    /\ UNCHANGED <<validAccess, validRefresh, issued, hist, proxy, rcall>>
    /\ UNCHANGED <<authCall, authStore, pagination>>


\* the browser's cookie jars at the start and what the backend accepts of them
InitJars ==
    /\ cookies \in [access : InitialAccessTokens, refresh : {NoRefresh, 1}]
    /\ validAccess \in SUBSET {1}
    /\ 1 \in validAccess =>
         cookies.access.id = 1 /\ cookies.access.parts = 3 /\ cookies.access.decodable
    /\ validRefresh \in SUBSET {1}
    /\ 1 \in validRefresh => cookies.refresh = 1
    /\ issued = 1

\* the URLs a navigation starts on: the pages, and the Recovery Endpoint hit
\* directly (GET), without and with a redirect parameter
StartUrls ==
    {PlainUrl(path) : path \in Paths}
    \cup {PlainUrl(SessionRefreshPath),
          Url(SessionRefreshPath, encodeURIComponent(TablesPath), NoParam)}

InitNav ==
    /\ InitJars
    /\ \E url \in StartUrls :
         /\ nav = [at |-> IF MatcherMatches(url.path) THEN "edge" ELSE "recovery",
                   req |-> Request(url, cookies),
                   resp |-> NoResponse, hops |-> 0, view |-> "none"]
         /\ hist = [target |-> url.path, jar |-> cookies,
                    validA |-> 1 \in validAccess, validR |-> 1 \in validRefresh,
                    last |-> [layer |-> "none", req |-> Request(url, cookies),
                              called |-> FALSE, answer |-> "none"],
                    faults |-> {}, calls |-> 0, inconsistent |-> FALSE,
                    visited |-> {}, revisit |-> FALSE]
    /\ proxy = [p \in Calls |-> IdleCall]
    /\ rcall = NoRcall
    /\ authCall = NoAuthCall
    /\ authStore = NoStore
    /\ pagination = NoPagination

NextNav ==
    \/ EdgeInterceptor
    \/ SessionGate
    \/ PublicPageRender
    \/ RecoveryEndpoint
    \/ BrowserFollowRedirect
    \/ BrowserShow

SpecNav == InitNav /\ [][NextNav]_vars

----------------------------------------------------------------------------
(* Request Proxy: handleRequest of api/[...path]/route.ts.  One call is a   *)
(* first downstream request, at most one refresh, at most one retry, and    *)
(* the response the browser stores.                                          *)

\* a downstream {API}/<path> call with the bearer token: the status class of
\* the answer ("200", "204", "401", "other") or a thrown error
DownstreamAnswers(token) ==
    (IF token.id \in validAccess THEN {"200", "204"} ELSE {})
    \cup {"401", "other", "refused", "error"}

DownstreamTruthful(token, st) ==
    IF token.id \in validAccess THEN st \in {"200", "204", "other"} ELSE st = "401"

\* refreshAccessToken(refreshToken): the parsed 2xx body, whatever it holds, or
\* null on a non-2xx answer and on a thrown error
refreshAccessToken(ans) ==
    IF ans.kind \in {"ok", "okNoRefresh", "malformed"}
    THEN [present |-> TRUE, accessToken |-> ans.accessToken,
          refreshToken |-> ans.refreshToken]
    ELSE NoTokens

\* setTokenCookies(res, tokens): an undefined field is written as an empty value
setTokenCookies(res, tokens) ==
    [res EXCEPT !.setAccess = SetA(tokens.accessToken),
                !.setRefresh = SetR(tokens.refreshToken)]

clearTokenCookies(res) ==
    [res EXCEPT !.setAccess = ClearA, !.setRefresh = ClearR]

\* variant: the 401 handling is skipped once new tokens were written
proxyResponseElseIf(status, newTokens) ==
    LET res == ProxyResponse(status, KeepA, KeepR, FALSE)
    IN  IF newTokens.present THEN setTokenCookies(res, newTokens)
        ELSE IF status = "401"
        THEN [clearTokenCookies(res) EXCEPT !.xAuthRedirect = TRUE]
        ELSE res

\* variant: a 401 clears the cookies but the redirect flag is not set
proxyResponseNoFlag(status, newTokens) ==
    LET res == ProxyResponse(status, KeepA, KeepR, FALSE)
        withTokens == IF newTokens.present THEN setTokenCookies(res, newTokens) ELSE res
    IN  IF status = "204" THEN withTokens
        ELSE IF status = "401" THEN clearTokenCookies(withTokens)
        ELSE withTokens

\* handleRequest from "Handle empty responses" to "return res": the response
\* built from the last downstream status and the refreshed tokens
proxyResponse(status, newTokens) ==
    LET res == ProxyResponse(status, KeepA, KeepR, FALSE)
        withTokens == IF newTokens.present THEN setTokenCookies(res, newTokens) ELSE res
    IN  IF status = "204" THEN withTokens
        ELSE IF status = "401"
        THEN [clearTokenCookies(withTokens) EXCEPT !.xAuthRedirect = TRUE]
        ELSE withTokens

\* the catch block of handleRequest: 503 on ECONNREFUSED, 500 otherwise
\* variant: the catch block does not look at the error's cause
proxyErrorGeneric(thrown) ==
    [ProxyResponse("500", KeepA, KeepR, FALSE) EXCEPT !.error = "INTERNAL_ERROR"]

proxyError(thrown) ==
    LET isConnectionError == thrown = "refused"
    IN  [ProxyResponse(IF isConnectionError THEN "503" ELSE "500", KeepA, KeepR, FALSE)
            EXCEPT !.error = IF isConnectionError THEN "SERVER_UNAVAILABLE"
                                                  ELSE "INTERNAL_ERROR"]

\* the requests a script sends through the proxy
Methods == {"GET", "POST", "PATCH", "PUT", "DELETE"}
ProxiedRequests ==
    {r \in [method : Methods, body : {NoBody, "{json}"},
            path : {<<"users">>, <<"users", "7">>}, search : {"", "?page=2"}] :
        r.method = "GET" => r.body = NoBody}

\* proxyRequest reads the body with request.text() unless the method is GET
\* or HEAD
readsBody(req) == req.method \notin {"GET", "HEAD"}

\* request.text() rejects when the body stream was read before; a request
\* without a body can be read again and gives ""
textThrows(req, bodyUsed) == readsBody(req) /\ bodyUsed

\* the body stream is used up by the first request.text() of a request that
\* has a body
bodyUsedAfter(req, bodyUsed) == bodyUsed \/ (readsBody(req) /\ req.body # NoBody)

\* proxyRequest(request, path, accessToken): the downstream request it sends
\* ("body || undefined": an empty text is no body)
proxyRequest(req, accessToken) ==
    [url |-> <<req.path, req.search>>, method |-> req.method,
     authorization |-> accessToken,
     body |-> IF readsBody(req) THEN req.body ELSE NoBody]

\* "if (response.status === 401 && refreshToken)" after the first request
refreshAfterFirst(status, refreshToken) == status = "401" /\ refreshToken # NoRefresh

Thrown(st) == st \in {"refused", "error"}

\* the browser sends a request to the proxy with its current cookies
ProxyStart(p, req) ==
    /\ proxy[p].pc = "idle"
    /\ proxy' = [proxy EXCEPT ![p] = [IdleCall EXCEPT
                    !.pc = "first", !.jar = cookies, !.req = req,
                    !.validA = cookies.access.id \in validAccess,
                    !.validR = cookies.refresh \in validRefresh]]
    /\ UNCHANGED <<cookies, validAccess, validRefresh, issued, nav, hist, rcall>>
    /\ UNCHANGED <<authCall, authStore, pagination>>

\* the initial downstream request
ProxyFirst(p) ==
    /\ proxy[p].pc = "first"
    /\ \E st \in DownstreamAnswers(proxy[p].jar.access) :
         LET c == [proxy[p] EXCEPT
                     !.downstreamCalls = @ + 1,
                     !.status = st,
                     !.bodyUsed = bodyUsedAfter(proxy[p].req, @),
                     !.sent = Append(@, proxyRequest(proxy[p].req, proxy[p].jar.access)),
                     !.faults = IF DownstreamTruthful(proxy[p].jar.access, st)
                                THEN @ ELSE @ \cup {st}]
         IN  proxy' = [proxy EXCEPT ![p] =
                 IF Thrown(st) THEN [c EXCEPT !.pc = "browser", !.resp = proxyError(st)]
                 ELSE IF refreshAfterFirst(st, c.jar.refresh) THEN [c EXCEPT !.pc = "refresh"]
                 ELSE [c EXCEPT !.pc = "browser", !.resp = proxyResponse(st, c.newTokens)]]
    /\ UNCHANGED <<cookies, validAccess, validRefresh, issued, nav, hist, rcall>>
    /\ UNCHANGED <<authCall, authStore, pagination>>

\* the refresh attempt after a 401
ProxyRefresh(p) ==
    /\ proxy[p].pc = "refresh"
    /\ \E ans \in RefreshAnswers(proxy[p].jar.refresh) :
         LET rt == proxy[p].jar.refresh
             c == [proxy[p] EXCEPT
                     !.refreshCalls = @ + 1,
                     !.refreshAnswer = ans.kind,
                     !.newTokens = refreshAccessToken(ans),
                     !.faults = IF RefreshTruthful(rt, ans) THEN @ ELSE @ \cup {ans.kind}]
         IN  /\ SetBackend(BackendAfterRefresh(rt, ans))
             /\ proxy' = [proxy EXCEPT ![p] =
                   IF c.newTokens.present THEN [c EXCEPT !.pc = "retry"]
                   ELSE [c EXCEPT !.pc = "browser",
                                  !.resp = proxyResponse(c.status, c.newTokens)]]
    /\ UNCHANGED <<cookies, nav, hist, rcall>>
    /\ UNCHANGED <<authCall, authStore, pagination>>

\* the retry with the new access token: proxyRequest reads the body again,
\* and when that throws no request is sent and the catch block answers
ProxyRetry(p) ==
    /\ proxy[p].pc = "retry"
    /\ IF textThrows(proxy[p].req, proxy[p].bodyUsed)
       THEN proxy' = [proxy EXCEPT ![p] =
                [proxy[p] EXCEPT !.pc = "browser", !.status = "error",
                                 !.resp = proxyError("error")]]
       ELSE \E st \in DownstreamAnswers(proxy[p].newTokens.accessToken) :
         LET c == [proxy[p] EXCEPT
                     !.downstreamCalls = @ + 1,
                     !.status = st,
                     !.bodyUsed = bodyUsedAfter(proxy[p].req, @),
                     !.sent = Append(@, proxyRequest(proxy[p].req,
                                                     proxy[p].newTokens.accessToken)),
                     !.faults = IF DownstreamTruthful(proxy[p].newTokens.accessToken, st)
                                THEN @ ELSE @ \cup {st}]
         IN  proxy' = [proxy EXCEPT ![p] =
                 IF Thrown(st) THEN [c EXCEPT !.pc = "browser", !.resp = proxyError(st)]
                 ELSE [c EXCEPT !.pc = "browser", !.resp = proxyResponse(st, c.newTokens)]]
    /\ UNCHANGED <<cookies, validAccess, validRefresh, issued, nav, hist, rcall>>
    /\ UNCHANGED <<authCall, authStore, pagination>>

\* the browser stores the cookies of the proxy's response
ProxyDeliver(p) ==
    /\ proxy[p].pc = "browser"
    /\ cookies' = ApplyCookies(cookies, proxy[p].resp)
    /\ proxy' = [proxy EXCEPT ![p].pc = "done"]
    /\ UNCHANGED <<validAccess, validRefresh, issued, nav, hist, rcall>>
    /\ UNCHANGED <<authCall, authStore, pagination>>

IdleNav ==
    [at |-> "idle", req |-> Request(PlainUrl(RootPath), NoJar),
     resp |-> NoResponse, hops |-> 0, view |-> "none"]
IdleHist ==
    [target |-> RootPath, jar |-> NoJar, validA |-> FALSE, validR |-> FALSE,
     last |-> [layer |-> "none", req |-> Request(PlainUrl(RootPath), NoJar),
               called |-> FALSE, answer |-> "none"],
     faults |-> {}, calls |-> 0, inconsistent |-> FALSE,
     visited |-> {}, revisit |-> FALSE]

InitProxy ==
    /\ InitJars
    /\ nav = IdleNav
    /\ hist = IdleHist
    /\ proxy = [p \in Calls |-> IdleCall]
    /\ rcall = NoRcall
    /\ authCall = NoAuthCall
    /\ authStore = NoStore
    /\ pagination = NoPagination

NextProxy ==
    \E p \in Calls :
        \/ ProxyStart(p, GetUsers)
        \/ ProxyFirst(p)
        \/ ProxyRefresh(p)
        \/ ProxyRetry(p)
        \/ ProxyDeliver(p)

SpecProxy == InitProxy /\ [][NextProxy]_vars

\* one proxied call, of any method, with and without a body
NextProxyBody ==
    \/ \E req \in ProxiedRequests : ProxyStart(1, req)
    \/ ProxyFirst(1)
    \/ ProxyRefresh(1)
    \/ ProxyRetry(1)
    \/ ProxyDeliver(1)

SpecProxyBody == InitProxy /\ [][NextProxyBody]_vars

----------------------------------------------------------------------------
(* POST /api/auth/refresh, called by page scripts *)

\* variant: a failed refresh deletes the access_token cookie only
refreshPOSTKeepsRefresh(jar, ans) ==
    IF jar.refresh = NoRefresh THEN ProxyResponse("401", KeepA, KeepR, FALSE)
    ELSE IF ans.kind \in {"refused", "error"} THEN ProxyResponse("500", KeepA, KeepR, FALSE)
    ELSE IF ans.kind \in {"reject", "malformed"}
    THEN ProxyResponse("401", ClearA, KeepR, FALSE)
    ELSE ProxyResponse("200", SetA(ans.accessToken),
                       IF ans.refreshToken # NoRefresh THEN SetR(ans.refreshToken) ELSE KeepR,
                       FALSE)

\* POST(request) of api/auth/refresh/route.ts
refreshPOST(jar, ans) ==
    IF jar.refresh = NoRefresh THEN ProxyResponse("401", KeepA, KeepR, FALSE)
    ELSE IF ans.kind \in {"refused", "error"} THEN ProxyResponse("500", KeepA, KeepR, FALSE)
    ELSE IF ans.kind \in {"reject", "malformed"}
    THEN ProxyResponse("401", ClearA, ClearR, FALSE)
    ELSE ProxyResponse("200", SetA(ans.accessToken),
                       IF ans.refreshToken # NoRefresh THEN SetR(ans.refreshToken) ELSE KeepR,
                       FALSE)

\* a script calls POST /api/auth/refresh with the browser's current cookies
RefreshStart(c) ==
    /\ rcall[c].pc = "idle"
    /\ rcall' = [rcall EXCEPT ![c] = [IdleRefreshCall EXCEPT
                    !.pc = "handle", !.jar = cookies,
                    !.validR = cookies.refresh \in validRefresh]]
    /\ UNCHANGED <<cookies, validAccess, validRefresh, issued, nav, hist, proxy>>
    /\ UNCHANGED <<authCall, authStore, pagination>>

\* the route handler runs: at most one backend call, then the response
RefreshHandle(c) ==
    /\ rcall[c].pc = "handle"
    /\ \E ans \in (IF rcall[c].jar.refresh # NoRefresh
                   THEN RefreshAnswers(rcall[c].jar.refresh) ELSE {NoAnswer}) :
         /\ SetBackend(BackendAfterRefresh(rcall[c].jar.refresh, ans))
         /\ rcall' = [rcall EXCEPT ![c].pc = "browser",
                                   ![c].answer = ans.kind,
                                   ![c].fault = /\ rcall[c].jar.refresh # NoRefresh
                                                /\ ~RefreshTruthful(rcall[c].jar.refresh, ans),
                                   ![c].resp = refreshPOST(rcall[c].jar, ans)]
    /\ UNCHANGED <<cookies, nav, hist, proxy>>
    /\ UNCHANGED <<authCall, authStore, pagination>>

\* the browser stores the cookies of the response
RefreshDeliver(c) ==
    /\ rcall[c].pc = "browser"
    /\ cookies' = ApplyCookies(cookies, rcall[c].resp)
    /\ rcall' = [rcall EXCEPT ![c].pc = "done"]
    /\ UNCHANGED <<validAccess, validRefresh, issued, nav, hist, proxy>>
    /\ UNCHANGED <<authCall, authStore, pagination>>

InitRefresh ==
    /\ InitJars
    /\ nav = IdleNav
    /\ hist = IdleHist
    /\ proxy = [p \in Calls |-> IdleCall]
    /\ rcall = NoRcall
    /\ authCall = NoAuthCall
    /\ authStore = NoStore
    /\ pagination = NoPagination

NextRefresh ==
    \E c \in Calls :
        \/ RefreshStart(c)
        \/ RefreshHandle(c)
        \/ RefreshDeliver(c)

SpecRefresh == InitRefresh /\ [][NextRefresh]_vars

----------------------------------------------------------------------------
(* Login and logout: POST /api/auth/login, POST /api/auth/logout and the    *)
(* library's logout, followed by a navigation with the cookies they left.   *)

\* the options object of a cookies.set call
CookieOptions(httpOnly, secure, sameSite, path, maxAge) ==
    [httpOnly |-> httpOnly, secure |-> secure, sameSite |-> sameSite,
     path |-> path, maxAge |-> maxAge]

\* cookies.set(name, value, options): maxAge 0 removes the cookie
SetCookie(value, options) ==
    [op |-> IF options.maxAge = 0 THEN "clear" ELSE "set", value |-> value,
     httpOnly |-> options.httpOnly, secure |-> options.secure,
     sameSite |-> options.sameSite, path |-> options.path,
     maxAge |-> options.maxAge]

\* the response of a route handler: status and the two cookies it may write
AuthResponse(status, a, r) == [status |-> status, setAccess |-> a, setRefresh |-> r]

\* POST {API}/auth/login with the credentials:
\*   "ok" 2xx {accessToken, refreshToken}, "malformed" 2xx without tokens,
\*   "reject" non-2xx, "refused" / "error" a thrown fetch or json()
LoginAnswers(accepted) ==
    (IF accepted /\ issued < MaxIssue
     THEN {[kind |-> "ok", accessToken |-> IssuedAccess(issued + 1),
            refreshToken |-> issued + 1]}
     ELSE {})
    \cup {Answer("malformed"), Answer("reject"), Answer("refused"), Answer("error")}

\* the backend's state after a login answer: the issued pair is accepted
BackendAfterLogin(ans) ==
    IF ans.kind = "ok"
    THEN [validAccess |-> validAccess \cup {issued + 1},
          validRefresh |-> validRefresh \cup {issued + 1},
          issued |-> issued + 1]
    ELSE [validAccess |-> validAccess, validRefresh |-> validRefresh,
          issued |-> issued]

\* variant: the login route writes the access_token cookie only
loginPOSTAccessOnly(ans) ==
    IF ans.kind \in {"refused", "error"} THEN AuthResponse("500", KeepA, KeepR)
    ELSE IF ans.kind = "reject" THEN AuthResponse("401", KeepA, KeepR)
    ELSE AuthResponse("200",
            SetCookie(ans.accessToken,
                      CookieOptions(TRUE, FALSE, "lax", "/", AccessMaxAge)),
            KeepR)

\* POST(request) of api/auth/login/route.ts
loginPOST(ans) ==
    IF ans.kind \in {"refused", "error"} THEN AuthResponse("500", KeepA, KeepR)
    ELSE IF ans.kind = "reject" THEN AuthResponse("401", KeepA, KeepR)
    ELSE AuthResponse("200",
            SetCookie(ans.accessToken,
                      CookieOptions(TRUE, FALSE, "lax", "/", AccessMaxAge)),
            SetCookie(ans.refreshToken,
                      CookieOptions(TRUE, FALSE, "lax", "/", RefreshMaxAge)))

\* POST {API}/auth/logout with the bearer: "ok" 2xx, "401", "reject" any
\* other non-2xx, "refused" / "error" a thrown fetch
LogoutAnswers ==
    {Answer("ok"), Answer("401"), Answer("reject"), Answer("refused"),
     Answer("error")}

\* the backend call the logout route makes: none without an access token
LogoutRouteAnswers(jar) ==
    IF jar.access = NoToken THEN {Answer("skipped")} ELSE LogoutAnswers

\* variant: the cookies are cleared only when the backend call did not throw
logoutPOSTUnlessThrown(jar, ans) ==
    IF ans.kind \in {"refused", "error"}
    THEN AuthResponse("200", KeepA, KeepR)
    ELSE AuthResponse("200",
            SetCookie(NoToken, CookieOptions(TRUE, FALSE, "lax", "/", 0)),
            SetCookie(NoRefresh, CookieOptions(TRUE, FALSE, "lax", "/", 0)))

\* POST() of api/auth/logout/route.ts: the backend call sits in a try of its
\* own whose catch is empty, and its response is never read
logoutPOST(jar, ans) ==
    AuthResponse("200",
        SetCookie(NoToken, CookieOptions(TRUE, FALSE, "lax", "/", 0)),
        SetCookie(NoRefresh, CookieOptions(TRUE, FALSE, "lax", "/", 0)))

\* setTokens(accessToken, refreshToken) of lib/tokens.ts
setTokens(accessToken, refreshToken, production) ==
    [setAccess |-> SetCookie(accessToken,
                      CookieOptions(TRUE, production, "lax", "/", AccessMaxAge)),
     setRefresh |-> SetCookie(refreshToken,
                      CookieOptions(TRUE, production, "lax", "/", RefreshMaxAge))]

\* clearTokens() of lib/tokens.ts: cookieStore.delete of both names
clearTokens == [setAccess |-> ClearA, setRefresh |-> ClearR]

\* the cookie store of a library call after one more setTokens / clearTokens:
\* a later write of a name replaces the earlier one
CookieStoreAfter(status, writes) ==
    [status |-> status, setAccess |-> writes.setAccess,
     setRefresh |-> writes.setRefresh]

\* the backend calls of the library: login and logout through apiFetch
LibAnswers(op, accepted) ==
    IF op = "libLogin" THEN LoginAnswers(accepted) \cup {Answer("401")}
    ELSE LogoutAnswers

\* the backend's state after it answered a library call
LibBackendAfter(op, ans) ==
    IF op = "libLogin" THEN BackendAfterLogin(ans)
    ELSE BackendAfterLogin(Answer("none"))

\* apiFetch of lib/api.ts asks for a refresh after a 401 it sent a token with
libNeedsRefresh(jar, ans) == ans.kind = "401" /\ jar.access # NoToken

\* what login() / logout() of lib/auth.ts do with the outcome of apiFetch:
\* login stores the pair of a 2xx answer and lets any error through, logout
\* ignores the error and clears in its finally
libFinish(op, ans, resp, production) ==
    IF op = "libLogout" THEN CookieStoreAfter("returned", clearTokens)
    ELSE IF ans.kind \in {"ok", "malformed"}
    THEN CookieStoreAfter("returned",
             setTokens(ans.accessToken, ans.refreshToken, production))
    ELSE [resp EXCEPT !.status = "thrown"]

\* refreshAccessToken() of lib/api.ts: the cookie store after it
libRefreshAccessToken(jar, rans, resp, production) ==
    IF jar.refresh = NoRefresh THEN resp
    ELSE IF rans.kind \in {"reject", "refused", "error"}
    THEN CookieStoreAfter(resp.status, clearTokens)
    ELSE CookieStoreAfter(resp.status,
             setTokens(rans.accessToken, rans.refreshToken, production))

\* refreshAccessToken() returned a token: apiFetch repeats the request
libRefreshed(jar, rans) ==
    jar.refresh # NoRefresh /\ rans.kind \in {"ok", "okNoRefresh"}

\* a page script starts a call; calls are made while no navigation runs
AuthStart(op) ==
    /\ authCall.pc \in {"idle", "done"}
    /\ authCall.count < MaxAuthCalls
    /\ nav.at = "idle"
    /\ \E production \in BOOLEAN :
         authCall' = [NoAuthCall EXCEPT !.pc = "handle", !.op = op,
                                        !.production = production,
                                        !.jar = cookies,
                                        !.count = authCall.count + 1]
    /\ UNCHANGED <<cookies, validAccess, validRefresh, issued, nav, hist, proxy, rcall>>
    /\ UNCHANGED <<authStore, pagination>>

\* the login route runs
LoginHandle ==
    /\ authCall.pc = "handle" /\ authCall.op = "login"
    /\ \E accepted \in BOOLEAN : \E ans \in LoginAnswers(accepted) :
         /\ SetBackend(BackendAfterLogin(ans))
         /\ authCall' = [authCall EXCEPT !.pc = "browser", !.answer = ans.kind,
                                         !.resp = loginPOST(ans)]
    /\ UNCHANGED <<cookies, nav, hist, proxy, rcall>>
    /\ UNCHANGED <<authStore, pagination>>

\* the logout route runs
LogoutHandle ==
    /\ authCall.pc = "handle" /\ authCall.op = "logout"
    /\ \E ans \in LogoutRouteAnswers(authCall.jar) :
         authCall' = [authCall EXCEPT !.pc = "browser", !.answer = ans.kind,
                                      !.resp = logoutPOST(authCall.jar, ans)]
    /\ UNCHANGED <<cookies, validAccess, validRefresh, issued, nav, hist, proxy, rcall>>
    /\ UNCHANGED <<authStore, pagination>>

\* login() / logout() of lib/auth.ts: the first request of apiFetch
LibCall ==
    /\ authCall.pc = "handle" /\ authCall.op \in {"libLogin", "libLogout"}
    /\ \E accepted \in BOOLEAN : \E ans \in LibAnswers(authCall.op, accepted) :
         /\ SetBackend(LibBackendAfter(authCall.op, ans))
         /\ IF libNeedsRefresh(authCall.jar, ans)
            THEN authCall' = [authCall EXCEPT !.pc = "refresh", !.answer = ans.kind]
            ELSE authCall' = [authCall EXCEPT
                    !.pc = "browser", !.answer = ans.kind,
                    !.resp = libFinish(authCall.op, ans, authCall.resp,
                                       authCall.production)]
    /\ UNCHANGED <<cookies, nav, hist, proxy, rcall>>
    /\ UNCHANGED <<authStore, pagination>>

\* apiFetch after the 401: refreshAccessToken(), then the request again or,
\* without a new token, the 401 as the outcome
LibRefresh ==
    /\ authCall.pc = "refresh"
    /\ \E rans \in RefreshAnswers(authCall.jar.refresh) :
         LET called == authCall.jar.refresh # NoRefresh
             store == libRefreshAccessToken(authCall.jar, rans, authCall.resp,
                                            authCall.production)
         IN /\ SetBackend(IF called
                          THEN BackendAfterRefresh(authCall.jar.refresh, rans)
                          ELSE BackendAfterRefresh(authCall.jar.refresh,
                                                   Answer("none")))
            /\ IF libRefreshed(authCall.jar, rans)
               THEN authCall' = [authCall EXCEPT !.pc = "retry", !.resp = store]
               ELSE authCall' = [authCall EXCEPT
                       !.pc = "browser",
                       !.resp = libFinish(authCall.op, Answer("401"), store,
                                          authCall.production)]
    /\ UNCHANGED <<cookies, nav, hist, proxy, rcall>>
    /\ UNCHANGED <<authStore, pagination>>

\* apiFetch repeats the request with the new token
LibRetry ==
    /\ authCall.pc = "retry"
    /\ \E accepted \in BOOLEAN : \E ans \in LibAnswers(authCall.op, accepted) :
         /\ SetBackend(LibBackendAfter(authCall.op, ans))
         /\ authCall' = [authCall EXCEPT
               !.pc = "browser", !.answer = ans.kind,
               !.resp = libFinish(authCall.op, ans, authCall.resp,
                                  authCall.production)]
    /\ UNCHANGED <<cookies, nav, hist, proxy, rcall>>
    /\ UNCHANGED <<authStore, pagination>>

\* the browser stores the cookies of the response
AuthDeliver ==
    /\ authCall.pc = "browser"
    /\ cookies' = ApplyCookies(cookies, authCall.resp)
    /\ authCall' = [authCall EXCEPT !.pc = "done"]
    /\ UNCHANGED <<validAccess, validRefresh, issued, nav, hist, proxy, rcall>>
    /\ UNCHANGED <<authStore, pagination>>

\* after a login that answered 2xx the browser navigates to /dashboard with
\* the cookies it holds
NavigateToDashboard ==
    /\ authCall.pc = "done" /\ authCall.op = "login"
    /\ authCall.resp.status = "200"
    /\ nav.at = "idle"
    /\ nav' = [at |-> "edge", req |-> Request(PlainUrl(DashboardPath), cookies),
               resp |-> NoResponse, hops |-> 0, view |-> "none"]
    /\ hist' = [IdleHist EXCEPT
                  !.target = DashboardPath, !.jar = cookies,
                  !.validA = cookies.access.id \in validAccess,
                  !.validR = cookies.refresh \in validRefresh,
                  !.last = [layer |-> "none",
                            req |-> Request(PlainUrl(DashboardPath), cookies),
                            called |-> FALSE, answer |-> "none"]]
    /\ UNCHANGED <<cookies, validAccess, validRefresh, issued, proxy, rcall>>
    /\ UNCHANGED <<authCall, authStore, pagination>>

InitSession ==
    /\ InitJars
    /\ nav = IdleNav
    /\ hist = IdleHist
    /\ proxy = [p \in Calls |-> IdleCall]
    /\ rcall = NoRcall
    /\ authCall = NoAuthCall
    /\ authStore = NoStore
    /\ pagination = NoPagination

NextSession ==
    \/ \E op \in {"login", "logout", "libLogin", "libLogout"} : AuthStart(op)
    \/ LoginHandle
    \/ LogoutHandle
    \/ LibCall
    \/ LibRefresh
    \/ LibRetry
    \/ AuthDeliver
    \/ NavigateToDashboard
    \/ NextNav

SpecSession == InitSession /\ [][NextSession]_vars

----------------------------------------------------------------------------
(* The client auth store: useAuthStore of store/authStore.ts.  "null" is the *)
(* null user and the null token; lastOp records the method called last.      *)

StoreUsers == {"null", "admin", "viewer", "editor", "manager", "guest"}
StoreTokens == {"null", "tokenA", "tokenB", "tokenC"}

\* variant: setUser leaves isAuthenticated alone
setUserOnly(state, user) ==
    [state EXCEPT !.user = user, !.isLoading = FALSE]

\* setUser: set({user, isAuthenticated: !!user, isLoading: false})
setUser(state, user) ==
    [state EXCEPT !.user = user, !.isAuthenticated = (user # "null"),
                  !.isLoading = FALSE]

\* setAccessToken: set({accessToken: token})
setAccessToken(state, token) == [state EXCEPT !.accessToken = token]

\* setLoading: set({isLoading: loading})
setLoading(state, loading) == [state EXCEPT !.isLoading = loading]

\* logout: set({user: null, isAuthenticated: false, isLoading: false,
\* accessToken: null})
storeLogout(state) ==
    [state EXCEPT !.user = "null", !.isAuthenticated = FALSE,
                  !.isLoading = FALSE, !.accessToken = "null"]

StoreSetUser ==
    /\ \E user \in StoreUsers :
         authStore' = [setUser(authStore, user) EXCEPT !.lastOp = "setUser"]
    /\ UNCHANGED <<cookies, validAccess, validRefresh, issued, nav, hist, proxy, rcall>>
    /\ UNCHANGED <<authCall, pagination>>

StoreSetAccessToken ==
    /\ \E token \in StoreTokens :
         authStore' = [setAccessToken(authStore, token) EXCEPT !.lastOp = "setAccessToken"]
    /\ UNCHANGED <<cookies, validAccess, validRefresh, issued, nav, hist, proxy, rcall>>
    /\ UNCHANGED <<authCall, pagination>>

StoreSetLoading ==
    /\ \E loading \in BOOLEAN :
         authStore' = [setLoading(authStore, loading) EXCEPT !.lastOp = "setLoading"]
    /\ UNCHANGED <<cookies, validAccess, validRefresh, issued, nav, hist, proxy, rcall>>
    /\ UNCHANGED <<authCall, pagination>>

StoreLogout ==
    /\ authStore' = [storeLogout(authStore) EXCEPT !.lastOp = "logout"]
    /\ UNCHANGED <<cookies, validAccess, validRefresh, issued, nav, hist, proxy, rcall>>
    /\ UNCHANGED <<authCall, pagination>>

InitStore ==
    /\ cookies = NoJar /\ validAccess = {} /\ validRefresh = {} /\ issued = 1
    /\ nav = IdleNav
    /\ hist = IdleHist
    /\ proxy = [p \in Calls |-> IdleCall]
    /\ rcall = NoRcall
    /\ authCall = NoAuthCall
    /\ authStore = NoStore
    /\ pagination = NoPagination

NextStore ==
    \/ StoreSetUser
    \/ StoreSetAccessToken
    \/ StoreSetLoading
    \/ StoreLogout

SpecStore == InitStore /\ [][NextStore]_vars

----------------------------------------------------------------------------
(* Pagination state: usePagination of hooks/usePagination.ts *)

PAGE_SIZES == {10, 25, 50, 100}

\* the totals a caller reports, 0 .. MaxTotal
MaxTotal == 30
Totals == 0 .. MaxTotal

\* Math.max(1, Math.ceil(total / pageSize))
totalPages(state) ==
    LET ceil == (state.total + state.pageSize - 1) \div state.pageSize
    IN  IF ceil > 1 THEN ceil ELSE 1

hasNextPage(state) == state.page < totalPages(state)
hasPreviousPage(state) == state.page > 1
isValidPage(state, p) == p >= 1 /\ p <= totalPages(state)

\* setPage(newPage): ignored unless the page is valid
setPage(state, newPage) ==
    IF isValidPage(state, newPage) THEN [state EXCEPT !.page = newPage] ELSE state

\* setPageSize(newSize): ignored unless the size is one of PAGE_SIZES; the
\* page goes back to 1
setPageSize(state, newSize) ==
    IF newSize \in PAGE_SIZES
    THEN [state EXCEPT !.pageSize = newSize, !.page = 1]
    ELSE state

\* setTotal is the state setter of useState: it stores the total and nothing
\* else
setTotal(state, newTotal) == [state EXCEPT !.total = newTotal]

nextPage(state) ==
    IF hasNextPage(state) THEN [state EXCEPT !.page = @ + 1] ELSE state
previousPage(state) ==
    IF hasPreviousPage(state) THEN [state EXCEPT !.page = @ - 1] ELSE state
firstPage(state) == [state EXCEPT !.page = 1]
lastPage(state) == [state EXCEPT !.page = totalPages(state)]

PageUnchanged ==
    /\ UNCHANGED <<cookies, validAccess, validRefresh, issued, nav, hist, proxy, rcall>>
    /\ UNCHANGED <<authCall, authStore>>

PageSetPage ==
    /\ \E newPage \in 0 .. (MaxTotal \div DEFAULT_PAGE_SIZE) + 1 :
         pagination' = setPage(pagination, newPage)
    /\ PageUnchanged

PageSetPageSize ==
    /\ \E newSize \in PAGE_SIZES \cup {20} :
         pagination' = setPageSize(pagination, newSize)
    /\ PageUnchanged

PageSetTotal ==
    /\ \E newTotal \in Totals : pagination' = setTotal(pagination, newTotal)
    /\ PageUnchanged

PageNext == pagination' = nextPage(pagination) /\ PageUnchanged
PagePrevious == pagination' = previousPage(pagination) /\ PageUnchanged
PageFirst == pagination' = firstPage(pagination) /\ PageUnchanged
PageLast == pagination' = lastPage(pagination) /\ PageUnchanged

\* the hook is mounted with a page size of PAGE_SIZES, a total and a page
\* within 1 .. totalPages
InitPagination ==
    /\ cookies = NoJar /\ validAccess = {} /\ validRefresh = {} /\ issued = 1
    /\ nav = IdleNav
    /\ hist = IdleHist
    /\ proxy = [p \in Calls |-> IdleCall]
    /\ rcall = NoRcall
    /\ authCall = NoAuthCall
    /\ authStore = NoStore
    /\ \E size \in PAGE_SIZES, total \in Totals :
         \E page \in 1 .. totalPages([page |-> 1, pageSize |-> size, total |-> total]) :
            pagination = [page |-> page, pageSize |-> size, total |-> total]

NextPagination ==
    \/ PageSetPage
    \/ PageSetPageSize
    \/ PageSetTotal
    \/ PageNext
    \/ PagePrevious
    \/ PageFirst
    \/ PageLast

SpecPagination == InitPagination /\ [][NextPagination]_vars

----------------------------------------------------------------------------
(* Properties of a navigation (SpecNav) *)

\* what the Edge Interceptor calls a protected path
IsProtectedPath(path) ==
    /\ ~\E p \in PUBLIC_PATHS : StartsWith(path, p)
    /\ path # RootPath

\* a well-formed token whose exp lies in the past
Expired(t) == t.parts = 3 /\ t.decodable /\ t.exp # 0 /\ t.exp * 1000 < NowMs

\* a layer has answered and the browser has not yet acted on the answer
Answered(layer) == nav.at = "browser" /\ hist.last.layer = layer

\* C1: protected content is rendered only by a Session Gate run that called
\* whoami with the request's access_token cookie and got a 2xx answer in that
\* same render; in every other case the children are not rendered.
C1_ProtectedOnlyAfterWhoamiOk ==
    (nav.resp.view = "protected" \/ nav.view = "protected") =>
        /\ hist.last.layer = "gate"
        /\ hist.last.req = nav.req
        /\ hist.last.called
        /\ hist.last.req.cookies.access # NoToken
        /\ hist.last.answer = "ok"

C1_Witness == nav.at = "done" /\ nav.view = "protected" /\ hist.last.answer = "ok"

C2_Premise ==
    /\ MatcherMatches(hist.target)
    /\ hist.jar.access # NoToken
    /\ Expired(hist.jar.access)
    /\ ~hist.validA
    /\ hist.validR
    /\ hist.faults = {}

\* C2 as stated, on the targets where "the target page" exists (a protected
\* path): with an expired access token and a refresh token the backend
\* accepts, the outcome is the target page, directly or after exactly one
\* redirect, and never the login page.
C2_Original ==
    (C2_Premise /\ IsProtectedPath(hist.target) /\ nav.at = "done") =>
        /\ nav.view # "login"
        /\ nav.req.url.path = hist.target
        /\ nav.hops <= 1

\* C2 amended: with an expired access token and a refresh token the backend
\* accepts (backend up and rotating), the tokens are rotated, no request of the
\* chain goes to the login page, and the chain ends on the target page when
\* the target is a protected path and on /dashboard otherwise; it takes one
\* redirect when the local check finds the token stale and two (Recovery
\* Endpoint and back) when it does not, plus one for a target that is not a
\* protected path.
C2_RotatesWithoutLogin ==
    C2_Premise =>
        /\ \A v \in hist.visited : v.url.path = LoginPath => hist.target = LoginPath
        /\ nav.view \in {"none", "protected"}
        /\ nav.at = "done" =>
             /\ nav.view = "protected"
             /\ nav.req.url.path =
                  (IF IsProtectedPath(hist.target) THEN hist.target ELSE DashboardPath)
             /\ nav.hops =
                  (IF isTokenExpiredOrInvalid(hist.jar.access, NowMs) THEN 1 ELSE 2)
                  + (IF IsProtectedPath(hist.target) THEN 0 ELSE 1)
             /\ cookies.access.id # hist.jar.access.id
             /\ cookies.access.id \in validAccess
             /\ cookies.refresh \in validRefresh

C2_Witness ==
    /\ C2_Premise /\ nav.at = "done" /\ nav.hops = 2
    /\ hist.target = TableRowsPath /\ nav.req.url.path = TableRowsPath

C3_Premise ==
    /\ hist.jar.refresh # NoRefresh
    /\ ~hist.validR
    /\ ~hist.validA
    /\ hist.faults = {}

\* C3: with a refresh token the backend rejects and no access token it
\* accepts, the chain from any target (protected, /login, /register, '/')
\* ends on the login page with both cookies cleared.
C3_InvalidRefreshEndsOnLogin ==
    C3_Premise =>
        /\ ~hist.revisit
        /\ nav.view \in {"none", "login"}
        /\ nav.at = "done" =>
             /\ nav.view = "login"
             /\ nav.req.url.path = LoginPath
             /\ cookies = NoJar

C3_Witness ==
    /\ C3_Premise /\ nav.at = "done" /\ nav.view = "login"
    /\ hist.target = RegisterPath /\ hist.jar.access # NoToken

\* C4: a request to a protected path with neither cookie is answered by the
\* Edge Interceptor (and by the earlier interceptor) with a redirect to /login
\* whose callbackUrl parameter is the requested path; the backend is not called.
C4_NoCookiesRedirectsToLogin ==
    (/\ nav.at \in {"browser", "page"}
     /\ hist.last.layer = "edge"
     /\ hist.last.req.cookies = NoJar
     /\ IsProtectedPath(hist.last.req.url.path)) =>
        /\ nav.at = "browser"
        /\ nav.resp.kind = "redirect"
        /\ nav.resp.location.path = LoginPath
        /\ searchParamsGet(nav.resp.location.callbackUrl) = hist.last.req.url.path
        /\ ~hist.last.called
        /\ hist.calls = 0
        /\ middlewareLegacy(hist.last.req) = nav.resp

C4_Witness ==
    /\ Answered("edge")
    /\ hist.last.req.cookies = NoJar
    /\ hist.last.req.url.path = TableRowsPath
    /\ nav.resp.location.callbackUrl = encodeURIComponent(TableRowsPath)

\* C10: when the Session Gate's whoami call is refused (ECONNREFUSED), the
\* layout renders the service-unavailable view, issues no redirect and
\* changes no cookie.
C10_RefusedRendersUnavailable ==
    (hist.last.layer = "gate" /\ hist.last.called /\ hist.last.answer = "refused") =>
        /\ nav.resp.kind = "render"
        /\ nav.resp.view = "unavailable"
        /\ nav.resp.setAccess = KeepA /\ nav.resp.setRefresh = KeepR
        /\ nav.at = "done" => (nav.view = "unavailable" /\ cookies = hist.last.req.cookies)

C10_Witness ==
    /\ nav.at = "done" /\ nav.view = "unavailable"
    /\ hist.last.layer = "gate" /\ hist.last.answer = "refused"

\* C5 as stated, for a backend whose only failure is a refused connection:
\* the chain reaches a view within the browser's redirect limit, and no layer
\* runs a second time on the same URL with the same cookies.
C5_NoLayerRunsTwiceWithoutProgress ==
    hist.faults \subseteq {"refused"} =>
        /\ ~hist.revisit
        /\ nav.view # "tooManyRedirects"

\* C9 as stated: a layer whose backend call was refused (backend unreachable)
\* neither clears the token cookies nor sends or signals the browser to login.
C9_UnreachableKeepsSession ==
    /\ (nav.at = "browser" /\ hist.last.called /\ hist.last.answer = "refused") =>
          /\ nav.resp.setAccess.op # "clear"
          /\ nav.resp.setRefresh.op # "clear"
          /\ ~(nav.resp.kind = "redirect" /\ nav.resp.location.path = LoginPath)
    /\ \A p \in Calls :
          (/\ proxy[p].pc \in {"browser", "done"}
           /\ (proxy[p].status = "refused" \/ proxy[p].refreshAnswer = "refused")) =>
              /\ proxy[p].resp.setAccess.op # "clear"
              /\ proxy[p].resp.setRefresh.op # "clear"
              /\ ~proxy[p].resp.xAuthRedirect

----------------------------------------------------------------------------
(* Properties of the Recovery Endpoint and the Session Gate (SpecNav) *)

\* the Recovery Endpoint ran last and did not get a 2xx answer with an
\* accessToken: no refresh cookie (no call), non-2xx, 2xx without accessToken,
\* or the call threw
RecoveryFailed ==
    /\ hist.last.layer = "recovery"
    /\ \/ ~hist.last.called
       \/ hist.last.answer \in {"reject", "malformed", "refused", "error"}

\* C11: every non-success outcome of the Recovery Endpoint (refresh cookie
\* absent, backend non-2xx, 2xx without accessToken, call throws) clears both
\* token cookies and redirects to /login, never to the requested target; the
\* browser then requests /login with an empty jar.
C11_RecoveryFailureClearsAndLogin ==
    RecoveryFailed =>
        /\ ~hist.last.called <=> hist.last.req.cookies.refresh = NoRefresh
        /\ nav.at = "browser" =>
              /\ nav.resp = Redirect(PlainUrl(LoginPath), ClearA, ClearR)
              /\ nav.resp.location.path # searchParamsGet(hist.last.req.url.redirect)
        /\ nav.at = "edge" =>
              /\ nav.req.url = PlainUrl(LoginPath)
              /\ nav.req.cookies = NoJar
              /\ cookies = NoJar

C11_Witness ==
    /\ RecoveryFailed /\ nav.at = "edge"
    /\ hist.last.answer = "refused"
    /\ hist.last.req.url.redirect = encodeURIComponent(TableRowsPath)
    /\ hist.last.req.cookies.access # NoToken
    /\ cookies = NoJar

\* the Recovery Endpoint ran last and its refresh call got a 2xx answer with
\* an accessToken
RecoverySucceeded ==
    /\ hist.last.layer = "recovery"
    /\ hist.last.called
    /\ hist.last.answer \in {"ok", "okNoRefresh"}

\* the path in the redirect parameter of the Recovery Endpoint's request, or
\* /dashboard when the request has none
RecoveryTarget ==
    IF hist.last.req.url.redirect # NoParam
    THEN searchParamsGet(hist.last.req.url.redirect) ELSE DashboardPath

GateRuns == nav.at = "page" /\ IsProtectedRoute(nav.req.url.path)

\* C13: the Session Gate changes no token cookie in any of its outcomes
\* (success, no_session, needs_refresh, server_error): its response carries no
\* Set-Cookie and the browser's jar after it is the jar of the request.  On a
\* 401 from whoami its whole response is the redirect to
\* /api/auth/session-refresh with the request's path as the redirect
\* parameter.  The gate's run makes no refresh call: the backend's tokens are
\* the same before and after it.
C13_GateNeverChangesCookies ==
    /\ [](hist.last.layer = "gate" =>
             /\ cookies = hist.last.req.cookies
             /\ nav.at = "browser" =>
                   /\ nav.resp.setAccess = KeepA
                   /\ nav.resp.setRefresh = KeepR
                   /\ nav.resp.view \in {"protected", "unavailable", "none"}
                   /\ (hist.last.called /\ hist.last.answer = "401") <=>
                         nav.resp = Redirect(Url(SessionRefreshPath,
                                                 encodeURIComponent(hist.last.req.url.path),
                                                 NoParam),
                                             KeepA, KeepR))
    /\ [][GateRuns =>
             /\ hist'.last.layer = "gate"
             /\ cookies' = cookies
             /\ validAccess' = validAccess
             /\ validRefresh' = validRefresh
             /\ issued' = issued]_vars

C13_Witness ==
    /\ nav.at = "recovery"
    /\ hist.last.layer = "gate" /\ hist.last.answer = "401"
    /\ nav.req.url.redirect = encodeURIComponent(TableRowsPath)
    /\ cookies = hist.jar
    /\ cookies.refresh # NoRefresh

----------------------------------------------------------------------------
(* Properties of the Edge Interceptor (SpecNav) *)

\* the Edge Interceptor ran last and its refresh call got a 2xx answer with an
\* accessToken
EdgeRefreshed ==
    /\ hist.last.layer = "edge"
    /\ hist.last.called
    /\ hist.last.answer \in {"ok", "okNoRefresh"}

\* C14: when the Edge Interceptor's refresh call gets a 2xx answer with an
\* accessToken, its response is the redirect to the URL of the request with
\* the new credentials as cookies (the refresh_token cookie when the answer
\* carries one); the request is not passed through and no other rule (auth
\* page to /dashboard, '/' redirect) decides the response; the browser asks
\* for the same URL again with the new cookies.
C14_EdgeRefreshRedirectsToSameUrl ==
    EdgeRefreshed =>
        /\ nav.at # "page"
        /\ nav.at = "browser" =>
              nav.resp = Redirect(hist.last.req.url,
                                  SetA(IssuedAccess(issued)),
                                  IF hist.last.answer = "ok" THEN SetR(issued) ELSE KeepR)
        /\ nav.at = "edge" =>
              /\ nav.req.url = hist.last.req.url
              /\ cookies.access = IssuedAccess(issued)
              /\ cookies.refresh = (IF hist.last.answer = "ok" THEN issued
                                    ELSE hist.last.req.cookies.refresh)

C14_Witness ==
    /\ EdgeRefreshed /\ nav.at = "edge"
    /\ hist.last.answer = "ok"
    /\ nav.req.url = PlainUrl(LoginPath)
    /\ cookies.refresh = issued /\ cookies.access.id = issued

\* the Edge Interceptor ran last and its refresh call failed: non-2xx, 2xx
\* without accessToken, or the call threw
EdgeRefreshFailed ==
    /\ hist.last.layer = "edge"
    /\ hist.last.called
    /\ hist.last.answer \in {"reject", "malformed", "refused", "error"}

\* C15 as stated: when the Edge Interceptor's refresh attempt fails (non-2xx,
\* no accessToken, or a throw), a request for a protected path is answered
\* with the redirect to /login carrying callbackUrl = the path and clearing
\* both cookies, and a request for a public/auth path is not redirected.
C15_EdgeFailureClearsAndLogin ==
    (EdgeRefreshFailed /\ nav.at \in {"browser", "page"}) =>
        /\ IsProtectedPath(hist.last.req.url.path) =>
              /\ nav.at = "browser"
              /\ nav.resp = Redirect(LoginWithCallback(hist.last.req.url.path),
                                     ClearA, ClearR)
        /\ (\E p \in PUBLIC_PATHS : StartsWith(hist.last.req.url.path, p)) =>
              /\ nav.at = "page"
              /\ nav.resp.kind = "next"

\* C16 as stated: a request whose access token is absent or stale by the
\* local check and whose refresh token is absent is, without a backend call,
\* redirected to /login with callbackUrl = the path when the path is
\* protected, passed through when it is an auth page, and redirected to
\* /login when it is '/'.
C16_NoUsableTokenGoesToLogin ==
    (/\ hist.last.layer = "edge"
     /\ nav.at \in {"browser", "page"}
     /\ hist.last.req.cookies.refresh = NoRefresh
     /\ \/ hist.last.req.cookies.access = NoToken
        \/ isTokenExpiredOrInvalid(hist.last.req.cookies.access, NowMs)) =>
        /\ ~hist.last.called
        /\ IsProtectedPath(hist.last.req.url.path) =>
              /\ nav.at = "browser"
              /\ nav.resp.kind = "redirect"
              /\ nav.resp.location = LoginWithCallback(hist.last.req.url.path)
        /\ (\E p \in AUTH_PATHS : StartsWith(hist.last.req.url.path, p)) =>
              /\ nav.at = "page"
              /\ nav.resp.kind = "next"
        /\ hist.last.req.url.path = RootPath =>
              /\ nav.at = "browser"
              /\ nav.resp.kind = "redirect"
              /\ nav.resp.location = PlainUrl(LoginPath)

\* C17: a request for an auth page (/login..., /register...) that carries an
\* access token the local check finds fresh, with or without a refresh token,
\* is answered by the Edge Interceptor with the redirect to /dashboard; the
\* backend's refresh endpoint is not called and no cookie is written.
C17_AuthPageWhenSignedInGoesToDashboard ==
    (/\ hist.last.layer = "edge"
     /\ nav.at \in {"browser", "page"}
     /\ \E p \in AUTH_PATHS : StartsWith(hist.last.req.url.path, p)
     /\ hist.last.req.cookies.access # NoToken
     /\ ~isTokenExpiredOrInvalid(hist.last.req.cookies.access, NowMs)) =>
        /\ nav.at = "browser"
        /\ nav.resp = Redirect(PlainUrl(DashboardPath), KeepA, KeepR)
        /\ ~hist.last.called
        /\ hist.last.answer = "none"

C17_Witness ==
    /\ Answered("edge")
    /\ hist.last.req.url.path = LoginExtraPath
    /\ hist.last.req.cookies.access.exp = 1000
    /\ hist.last.req.cookies.refresh # NoRefresh
    /\ nav.resp.location = PlainUrl(DashboardPath)
    /\ hist.calls = 0

----------------------------------------------------------------------------
(* Properties of the Request Proxy (SpecProxy) *)

Responded(p) == proxy[p].pc \in {"browser", "done"}

\* C6: one proxy call makes at most one refresh call and sends the downstream
\* request at most twice; a 401 on the retry ends the call with both cookies
\* cleared and X-Auth-Redirect: true.
C6_AtMostOneRetry ==
    \A p \in Calls :
        /\ proxy[p].refreshCalls <= 1
        /\ proxy[p].downstreamCalls <= 2
        /\ (Responded(p) /\ proxy[p].downstreamCalls = 2 /\ proxy[p].status = "401") =>
              /\ proxy[p].resp.status = "401"
              /\ proxy[p].resp.setAccess = ClearA
              /\ proxy[p].resp.setRefresh = ClearR
              /\ proxy[p].resp.xAuthRedirect

C6_Witness ==
    \E p \in Calls :
        /\ proxy[p].pc = "done" /\ proxy[p].refreshCalls = 1
        /\ proxy[p].downstreamCalls = 2 /\ proxy[p].status = "401"
        /\ proxy[p].newTokens.accessToken # NoToken
        /\ cookies = NoJar

C8_Premise ==
    /\ \A p \in Calls : proxy[p].pc # "idle" /\ proxy[p].faults = {}
    /\ proxy[1].jar = proxy[2].jar
    /\ Expired(proxy[1].jar.access)
    /\ \A p \in Calls : ~proxy[p].validA /\ proxy[p].validR

\* C8 as stated: two proxy calls that start with the same expired access token
\* and the same valid refresh token never end with the session destroyed, and
\* the browser ends with a pair the backend accepts.
C8_RedundantRefreshSafe ==
    C8_Premise =>
        /\ \A p \in Calls :
              Responded(p) =>
                 /\ ~proxy[p].resp.xAuthRedirect
                 /\ proxy[p].resp.setAccess.op # "clear"
                 /\ proxy[p].resp.setRefresh.op # "clear"
        /\ (\A p \in Calls : proxy[p].pc = "done") =>
              /\ cookies.access.id \in validAccess
              /\ cookies.refresh \in validRefresh

\* a Set-Cookie that leaves the browser without the cookie's value
BlanksAccess(c) == c.op # "keep" /\ c.value = NoToken
BlanksRefresh(c) == c.op # "keep" /\ c.value = NoRefresh

\* C18: in every response of the Request Proxy three facts coincide: the
\* status is 401, both token cookies are cleared (the clear replaces a cookie
\* set earlier in the same response), and X-Auth-Redirect: true is present.
\* This includes the 401 of a call that had no refresh token and made no
\* refresh call.  Unless the refresh answer lacked a token, no other response
\* leaves the browser without a token cookie.
C18_UnauthorizedClearsAndFlags ==
    \A p \in Calls :
        Responded(p) =>
            /\ proxy[p].resp.status = "401" <=> proxy[p].resp.xAuthRedirect
            /\ proxy[p].resp.status = "401" <=>
                  (proxy[p].resp.setAccess = ClearA /\ proxy[p].resp.setRefresh = ClearR)
            /\ proxy[p].resp.setAccess.op = "clear" <=> proxy[p].resp.setRefresh.op = "clear"
            /\ proxy[p].resp.status = "401" <=> proxy[p].status = "401"
            /\ proxy[p].resp.status \in {"200", "204", "401", "other", "500", "503"}
            /\ proxy[p].refreshAnswer \notin {"malformed", "okNoRefresh"} =>
                  /\ BlanksAccess(proxy[p].resp.setAccess) <=> proxy[p].resp.status = "401"
                  /\ BlanksRefresh(proxy[p].resp.setRefresh) <=> proxy[p].resp.status = "401"

C18_Witness ==
    \E p \in Calls :
        /\ proxy[p].pc = "done"
        /\ proxy[p].jar.refresh = NoRefresh /\ proxy[p].jar.access # NoToken
        /\ proxy[p].refreshCalls = 0
        /\ proxy[p].resp = ProxyResponse("401", ClearA, ClearR, TRUE)
        /\ cookies = NoJar

\* C19 as stated, leaving aside the final 401 whose clear replaces the new
\* cookies (C18): whenever a proxy call's refresh succeeded, its response sets
\* the access_token and refresh_token cookies to the refreshed pair, whatever
\* the retried downstream request did (any status, or a throw).
C19_RefreshedTokensAlwaysWritten ==
    \A p \in Calls :
        (Responded(p) /\ proxy[p].refreshAnswer = "ok") =>
            \/ /\ proxy[p].resp.setAccess = SetA(proxy[p].newTokens.accessToken)
               /\ proxy[p].resp.setRefresh = SetR(proxy[p].newTokens.refreshToken)
            \/ proxy[p].resp = ProxyResponse("401", ClearA, ClearR, TRUE)

\* C20 as stated, for the Request Proxy: a 2xx refresh answer without an
\* accessToken is handled like a failed refresh: no tokens come out of it, the
\* downstream request is not retried, and the response is the one of a failed
\* refresh (the forwarded 401, both cookies cleared, X-Auth-Redirect) with no
\* token cookie written from the answer.
C20_MalformedRefreshIsFailure ==
    \A p \in Calls :
        proxy[p].refreshAnswer = "malformed" =>
            /\ ~proxy[p].newTokens.present
            /\ proxy[p].pc # "retry"
            /\ proxy[p].downstreamCalls <= 1
            /\ Responded(p) =>
                  /\ proxy[p].resp = proxyResponse("401", refreshAccessToken(Answer("reject")))
                  /\ proxy[p].resp.setAccess.op # "set"
                  /\ proxy[p].resp.setRefresh.op # "set"

\* C21: when a downstream request of a proxy call throws, the response is 503
\* with error SERVER_UNAVAILABLE for a refused connection and 500 with error
\* INTERNAL_ERROR for every other thrown error; it sets or clears no cookie
\* and has no X-Auth-Redirect header, on the first request and on the retry
\* alike.  No other response of the proxy carries one of the two error codes.
C21_ThrownErrorIs503Or500 ==
    \A p \in Calls :
        Responded(p) =>
            /\ proxy[p].status = "refused" =>
                  proxy[p].resp =
                     [ProxyResponse("503", KeepA, KeepR, FALSE)
                         EXCEPT !.error = "SERVER_UNAVAILABLE"]
            /\ proxy[p].status = "error" =>
                  proxy[p].resp =
                     [ProxyResponse("500", KeepA, KeepR, FALSE)
                         EXCEPT !.error = "INTERNAL_ERROR"]
            /\ proxy[p].resp.error # "none" <=> Thrown(proxy[p].status)

C21_Witness ==
    \E p \in Calls :
        /\ proxy[p].pc = "done"
        /\ proxy[p].status = "refused"
        /\ proxy[p].downstreamCalls = 1
        /\ proxy[p].resp.status = "503"
        /\ proxy[p].resp.error = "SERVER_UNAVAILABLE"
        /\ cookies = proxy[p].jar /\ cookies.refresh # NoRefresh

----------------------------------------------------------------------------
(* Properties of POST /api/auth/refresh (SpecRefresh) *)

C7_Premise ==
    /\ \A c \in Calls : rcall[c].pc = "done" /\ ~rcall[c].fault
    /\ rcall[1].jar.refresh = rcall[2].jar.refresh
    /\ rcall[1].jar.refresh # NoRefresh
    /\ rcall[1].validR \/ rcall[2].validR

\* C7: two POST /api/auth/refresh calls with the same refresh token, valid
\* before the first, against a rotating backend: after both responses, in
\* either order, the browser holds a pair issued by one refresh answer or no
\* token cookie at all.
C7_TwoRefreshesConsistent ==
    C7_Premise =>
        \/ cookies = NoJar
        \/ /\ cookies.access # NoToken
           /\ cookies.refresh # NoRefresh
           /\ cookies.access.id = cookies.refresh
           /\ cookies.refresh # rcall[1].jar.refresh

C7_Witness ==
    /\ C7_Premise
    /\ cookies.refresh # NoRefresh
    /\ \E c \in Calls : rcall[c].answer = "reject"

----------------------------------------------------------------------------
(* Properties of login and logout (SpecSession) *)

\* the login route has answered a backend login that returned a token pair
LoggedIn ==
    /\ authCall.op = "login"
    /\ authCall.pc \in {"browser", "done"}
    /\ authCall.answer = "ok"

\* a navigation to /dashboard that followed the login, the backend answering
\* truthfully, carries the cookies of the login, and no layer redirects it
DashboardWithoutRedirect ==
    (nav.at # "idle" /\ hist.faults = {}) =>
        /\ hist.jar = [access |-> authCall.resp.setAccess.value,
                       refresh |-> authCall.resp.setRefresh.value]
        /\ nav.hops = 0
        /\ nav.resp.kind # "redirect"
        /\ nav.req.url = PlainUrl(DashboardPath)
        /\ nav.at = "done" => nav.view = "protected"

\* C22: after a login the backend accepts, the response sets the
\* access_token cookie with the documented lifetime of 1 day and the
\* refresh_token cookie with 7 days, and a following navigation to
\* /dashboard renders the dashboard with no redirect.
C22_Original ==
    LoggedIn =>
        /\ authCall.resp.status = "200"
        /\ authCall.resp.setAccess.op = "set"
        /\ authCall.resp.setRefresh.op = "set"
        /\ authCall.resp.setAccess.maxAge = DocumentedAccessMaxAge
        /\ authCall.resp.setRefresh.maxAge = RefreshMaxAge
        /\ DashboardWithoutRedirect

\* What the login route does instead: the response is 200 and sets the two
\* cookies to the issued pair with maxAge 900 s (15 minutes) and 604800 s
\* (7 days); the navigation that follows renders the dashboard.
C22_LoginThenDashboard ==
    LoggedIn =>
        /\ authCall.resp =
              AuthResponse("200",
                 SetCookie(IssuedAccess(authCall.resp.setRefresh.value),
                           CookieOptions(TRUE, FALSE, "lax", "/",
                                         AccessMaxAge)),
                 SetCookie(authCall.resp.setAccess.value.id,
                           CookieOptions(TRUE, FALSE, "lax", "/",
                                         RefreshMaxAge)))
        /\ nav.at = "idle" =>
              /\ authCall.resp.setRefresh.value \in validRefresh
              /\ authCall.resp.setAccess.value.id \in validAccess
        /\ DashboardWithoutRedirect

C22_Witness ==
    /\ LoggedIn
    /\ nav.at = "done" /\ nav.view = "protected" /\ nav.hops = 0
    /\ hist.faults = {} /\ hist.calls = 1
    /\ cookies.refresh = authCall.resp.setRefresh.value
    /\ authCall.jar = NoJar

\* the Edge Interceptor has run on the current request
EdgeRan == hist.last.layer = "edge" /\ hist.last.req = nav.req

\* the token expired more than 30 s before now
ExpiredBeyondBuffer(t) == t.exp # 0 /\ NowMs - t.exp * 1000 > 30000

\* C27: the local check calls a token stale exactly when it lacks three parts,
\* or its payload cannot be decoded, or its non-zero exp lies more than 30 s in
\* the past; a token without exp is never stale, and a token that expired less
\* than 30 s ago is fresh, so the Edge Interceptor starts no refresh for it.
C27_StaleExactlyBeyondBuffer ==
    LET t == nav.req.cookies.access
        wellFormed == t.parts = 3 /\ t.decodable
    IN  /\ isTokenExpiredOrInvalid(t, NowMs) <=> (~wellFormed \/ ExpiredBeyondBuffer(t))
        /\ (wellFormed /\ t.exp = 0) => ~isTokenExpiredOrInvalid(t, NowMs)
        /\ (wellFormed /\ t.exp * 1000 < NowMs /\ NowMs - t.exp * 1000 < 30000) =>
              ~isTokenExpiredOrInvalid(t, NowMs)
        /\ (EdgeRan /\ t # NoToken) =>
              (hist.last.called <=>
                 /\ nav.req.cookies.refresh # NoRefresh
                 /\ (~wellFormed \/ ExpiredBeyondBuffer(t)))

C27_Witness ==
    /\ EdgeRan
    /\ nav.req.cookies.refresh # NoRefresh
    /\ nav.req.cookies.access.parts = 3 /\ nav.req.cookies.access.decodable
    /\ nav.req.cookies.access.exp # 0
    /\ nav.req.cookies.access.exp * 1000 < NowMs
    /\ ~hist.last.called

\* the request needs no refresh: no refresh token, or an access token that
\* is present and passes the local check
NoRefreshNeeded(req) ==
    \/ req.cookies.refresh = NoRefresh
    \/ /\ req.cookies.access # NoToken
       /\ ~isTokenExpiredOrInvalid(req.cookies.access, NowMs)

\* C28: on a request that needs no refresh the Edge Interceptor decides as the
\* earlier interceptor without refresh does (pass through, redirect to
\* /dashboard, to /login with callbackUrl, or to /login), calls no backend and
\* writes no cookie; the two responses differ only in the x-next-pathname
\* header of a pass-through.
C28_SameDecisionAsLegacy ==
    (/\ nav.at \in {"browser", "page"}
     /\ hist.last.layer = "edge"
     /\ NoRefreshNeeded(hist.last.req)) =>
        /\ ~hist.last.called
        /\ [nav.resp EXCEPT !.header = NoParam] = middlewareLegacy(hist.last.req)
        /\ nav.resp.kind = "next" <=> nav.resp # middlewareLegacy(hist.last.req)
        /\ nav.resp.kind = "next" => nav.resp.header = hist.last.req.url.path

C28_Witness ==
    /\ nav.at = "page"
    /\ hist.last.layer = "edge"
    /\ NoRefreshNeeded(hist.last.req)
    /\ hist.last.req.cookies.refresh # NoRefresh
    /\ nav.resp.kind = "next"
    /\ nav.resp.header = TableRowsPath
    /\ middlewareLegacy(hist.last.req).kind = "next"

\* C29: after any sequence of setUser, setAccessToken, setLoading and logout
\* from the initial state, isAuthenticated is true exactly when user is not
\* null, and right after logout the store holds user = null,
\* isAuthenticated = false, accessToken = null and isLoading = false.
C29_AuthenticatedIffUser ==
    /\ authStore.isAuthenticated <=> authStore.user # "null"
    /\ authStore.lastOp = "logout" =>
          /\ authStore.user = "null"
          /\ ~authStore.isAuthenticated
          /\ authStore.accessToken = "null"
          /\ ~authStore.isLoading

C29_Witness ==
    /\ authStore.lastOp = "setLoading"
    /\ authStore.isAuthenticated
    /\ authStore.user = "admin"
    /\ authStore.accessToken = "tokenA"
    /\ authStore.isLoading

\* C30: after any sequence of setPage, setPageSize, setTotal, nextPage,
\* previousPage, firstPage and lastPage from a valid initial state, the page
\* lies within 1 .. totalPages, totalPages being max(1, ceil(total / pageSize)).
C30_PageWithinRange ==
    /\ 1 <= pagination.page
    /\ pagination.page <= totalPages(pagination)

\* the first downstream answer of the proxied call was 401 and the refresh
\* gave new tokens: the proxy goes on to the retry
RetryDue ==
    /\ proxy[1].pc \in {"browser", "done"}
    /\ Len(proxy[1].sent) >= 1
    /\ proxy[1].refreshAnswer \in {"ok", "okNoRefresh"}

\* C26: whatever the method and the body, after a 401 and a successful
\* refresh the request is sent again with the same path, query, method and
\* body, and only the bearer differs; having read the body for the first
\* attempt does not prevent the retry.
C26_RetrySendsTheSameRequest ==
    RetryDue =>
        /\ Len(proxy[1].sent) = 2
        /\ proxy[1].sent[2].authorization = proxy[1].newTokens.accessToken
        /\ proxy[1].sent[2] =
              [proxy[1].sent[1] EXCEPT !.authorization = proxy[1].newTokens.accessToken]
        /\ proxy[1].sent[2].body = proxy[1].req.body

\* what holds instead: the retry is the same request when it is sent, and it
\* is sent exactly when the request has no body to read a second time
C26_RetryOnlyWithoutBody ==
    RetryDue =>
        /\ Len(proxy[1].sent) = 2 <=> (proxy[1].req.body = NoBody)
        /\ Len(proxy[1].sent) = 2 =>
              proxy[1].sent[2] =
                 [proxy[1].sent[1] EXCEPT !.authorization = proxy[1].newTokens.accessToken]
        /\ Len(proxy[1].sent) = 1 =>
              /\ proxy[1].resp.status = "500"
              /\ proxy[1].resp.setAccess.op = "keep"

\* a logout, by the route or by the library, has produced its response
LoggedOut ==
    /\ authCall.op \in {"logout", "libLogout"}
    /\ authCall.pc \in {"browser", "done"}

\* C23: a logout clears both token cookies whatever the backend logout call
\* did (2xx, an error status, a throw, or no call for want of an access
\* token); once the browser has stored the response no token cookie is left.
C23_LogoutAlwaysClears ==
    LoggedOut =>
        /\ authCall.answer \in {"ok", "401", "reject", "refused", "error", "skipped"}
        /\ authCall.resp.setAccess.op = "clear"
        /\ authCall.resp.setRefresh.op = "clear"
        /\ authCall.pc = "done" => cookies = NoJar

C23_Witness ==
    /\ LoggedOut
    /\ authCall.op = "logout"
    /\ authCall.pc = "done"
    /\ authCall.answer \in {"refused", "error"}
    /\ authCall.jar.access # NoToken /\ authCall.jar.refresh # NoRefresh
    /\ cookies = NoJar

\* a cookie write that stores a credential carries the required attributes
CredentialAttributes(c, production) ==
    c.op = "set" =>
        /\ c.httpOnly
        /\ c.sameSite = "lax"
        /\ c.path = "/"
        /\ production => c.secure

\* C24: every credential cookie written by a response is httpOnly,
\* SameSite=Lax, path '/', and Secure when the deployment runs in production.
C24_CredentialCookieAttributes ==
    authCall.pc \in {"browser", "done"} =>
        /\ CredentialAttributes(authCall.resp.setAccess, authCall.production)
        /\ CredentialAttributes(authCall.resp.setRefresh, authCall.production)

\* the backend answered every call of the chain (no fetch threw), whoami
\* answered 2xx or 401, and 2xx to the tokens issued in the chain
BackendConsistent ==
    /\ ~hist.inconsistent
    /\ hist.faults \cap {"refused", "error"} = {}

\* C25: with a consistent backend (it answers, whoami answers 2xx or 401 and
\* accepts the tokens the backend has just issued) a navigation is redirected
\* at most three times before a view is rendered, whatever the cookies and
\* the requested path.
C25_AtMostThreeRedirects ==
    BackendConsistent =>
        /\ nav.hops <= 3
        /\ nav.view # "tooManyRedirects"

C25_Witness ==
    /\ BackendConsistent
    /\ nav.at = "done" /\ nav.hops = 3
    /\ nav.view = "protected"

====
